---------------------------- MODULE Spec2Model ----------------------------
(***************************************************************************)
(* DailyBit AI microservice: ingestion of topics and problems into the     *)
(* vector store (kb_service.py, problem_service.py), context-aware         *)
(* retrieval (qa_service.py), the search routes (routes/qa.py), the RAG   *)
(* orchestrator (llm_service.py) and the quiz routes (quiz_route.py).      *)
(*                                                                         *)
(* Strings are sequences of one-character strings, so that prefix tests,   *)
(* slicing and strip() are computed as Python computes them.  Distances,   *)
(* similarities and thresholds are fixed-point numbers in units of 10^-5;  *)
(* a reported similarity_score (rounded to 4 decimals) is in units of      *)
(* 10^-4.                                                                  *)
(***************************************************************************)
EXTENDS Integers, Sequences, FiniteSets, TLC

VARIABLES
    collections,   \* names of the collections that exist in the Chroma database
    store,         \* store[c] : chunk id -> stored chunk, for c in {"topics","problems"}
    loaded,        \* which service modules have been imported ("kb", "problem")
    handles,       \* QAService.topic_collection / problem_collection (cached handles)
    uuidCount,     \* number of uuid4() values drawn so far
    phase,         \* "idle" while no request is being answered, "responded" after a handler ran
    res,           \* the response (or raised error) of the last handler
    calls,         \* what the last handler asked of its collaborators
    ingestCount,   \* number of ingest requests handled so far
    lastIngest,    \* log of the most recent ingest request
    job,           \* the ingestion in progress in a concurrent worker, step by step
    active_quizzes,  \* routes/quiz_route.py active_quizzes: quiz id -> stored quiz
    lastEvaluation,  \* log of the most recent evaluate request: submission and response
    missed         \* partitions a retrieval of this service instance found absent

vars == <<collections, store, loaded, handles, uuidCount, phase, res, calls,
          ingestCount, lastIngest, job, active_quizzes, lastEvaluation, missed>>

----------------------------------------------------------------------------
(* Bounds of the model *)

\* uuid4() values that may be drawn in one behaviour
MaxUuid == 2
\* ingestions (successful or failed) in one behaviour
MaxIngest == 2
\* code examples per topic / solution approaches per problem
MaxSections == 2
\* n_results of a search that runs beside an ingestion (at least the number of
\* chunks the knowledge base can hold then)
ReaderNResults == 12

----------------------------------------------------------------------------
(* Program constants *)

\* default relevance / success threshold 0.7, in units of 10^-5
DefaultThreshold == 70000
\* the literal 0.7 of "is_relevant": similarity_score > 0.7
RelevanceLiteral == 70000
\* default n_results
DefaultNResults == 5

----------------------------------------------------------------------------
(* Python values *)

\* Python's None; no string of the model equals it (its only element is not a character)
None == <<"None">>

TopicPrefix == <<"t", "o", "p", "i", "c", ":">>
ProblemPrefix == <<"p", "r", "o", "b", "l", "e", "m", ":">>

Whitespace == {" ", "\t"}

\* s.startswith(p)
StartsWith(s, p) ==
    /\ Len(s) >= Len(p)
    /\ SubSeq(s, 1, Len(p)) = p

\* s[n:]
DropPrefix(s, n) == SubSeq(s, n + 1, Len(s))

RECURSIVE LStrip(_)
LStrip(s) ==
    IF s # <<>> /\ Head(s) \in Whitespace THEN LStrip(Tail(s)) ELSE s

RECURSIVE RStrip(_)
RStrip(s) ==
    IF s # <<>> /\ s[Len(s)] \in Whitespace
    THEN RStrip(SubSeq(s, 1, Len(s) - 1))
    ELSE s

\* s.strip()
Strip(s) == RStrip(LStrip(s))

\* Python truthiness of an Optional[str]
Truthy(s) == s # None /\ s # <<>>

----------------------------------------------------------------------------
(* Documents and chunks *)

\* A metadata key a chunk does not carry
Absent == <<"Absent">>

Digits == <<"1", "2", "3", "4", "5", "6", "7", "8", "9">>

\* str(uuid.uuid4()) for the n-th draw: a string no caller-chosen id equals
Uuid(n) == <<"#", Digits[n]>>

\* topic_data.id or str(uuid.uuid4())   /   problem_data.id or str(uuid.uuid4())
DocId(id, fresh) == IF Truthy(id) THEN id ELSE fresh

\* f"{doc_id}_{tag}" and f"{doc_id}_code_{language}_{i}", f"{doc_id}_approach_{i}"
ChunkId(docId, tag, lang, idx) ==
    [doc |-> docId, tag |-> tag, lang |-> lang, idx |-> idx]

\* base_metadata of a topic chunk, merged with the chunk's own keys
TopicMetadata(topic, tid, chunkType, lang) ==
    [topic |-> topic.title, topic_id |-> tid, title |-> Absent,
     problem_id |-> Absent, chunk_type |-> chunkType, language |-> lang]

TopicChunk(topic, tid, tag, chunkType) ==
    [id |-> ChunkId(tid, tag, <<>>, 0),
     text |-> [title |-> topic.title, type |-> chunkType, body |-> topic.body, lang |-> <<>>],
     metadata |-> TopicMetadata(topic, tid, chunkType, Absent)]

TopicCodeChunk(topic, tid, i) ==
    [id |-> ChunkId(tid, "code", topic.code_examples[i], i - 1),
     text |-> [title |-> topic.title, type |-> "code_example", body |-> topic.body,
               lang |-> topic.code_examples[i]],
     metadata |-> TopicMetadata(topic, tid, "code_example", topic.code_examples[i])]

\* a bug: all code examples of a topic are rendered into one chunk
create_chunks_from_topic_one_code_chunk(topic, fresh) ==
    LET tid == DocId(topic.id, fresh) IN
    <<TopicChunk(topic, tid, "core", "core_concept")>>
    \o (IF topic.detailed_explanation # <<>>
        THEN <<TopicChunk(topic, tid, "explanation", "detailed_explanation")>>
        ELSE <<>>)
    \o (IF topic.algorithm_steps # None /\ topic.algorithm_steps # <<>>
        THEN <<TopicChunk(topic, tid, "steps", "algorithm_steps")>>
        ELSE <<>>)
    \o <<TopicChunk(topic, tid, "complexity", "complexity")>>
    \o (IF topic.code_examples # <<>> THEN <<TopicCodeChunk(topic, tid, 1)>> ELSE <<>>)
    \o <<TopicChunk(topic, tid, "applications", "practical_applications")>>
    \o (IF topic.problem_patterns # <<>>
        THEN <<TopicChunk(topic, tid, "patterns", "problem_patterns")>>
        ELSE <<>>)
    \o <<TopicChunk(topic, tid, "implementation", "implementation_guide")>>

\* a variant: the applications and implementation chunks are not emitted
create_chunks_from_topic_no_guides(topic, fresh) ==
    LET tid == DocId(topic.id, fresh) IN
    <<TopicChunk(topic, tid, "core", "core_concept")>>
    \o (IF topic.detailed_explanation # <<>>
        THEN <<TopicChunk(topic, tid, "explanation", "detailed_explanation")>>
        ELSE <<>>)
    \o (IF topic.algorithm_steps # None /\ topic.algorithm_steps # <<>>
        THEN <<TopicChunk(topic, tid, "steps", "algorithm_steps")>>
        ELSE <<>>)
    \o <<TopicChunk(topic, tid, "complexity", "complexity")>>
    \o [i \in 1..Len(topic.code_examples) |-> TopicCodeChunk(topic, tid, i)]
    \o (IF topic.problem_patterns # <<>>
        THEN <<TopicChunk(topic, tid, "patterns", "problem_patterns")>>
        ELSE <<>>)

\* a bug: the algorithm steps chunk is emitted for an empty list of steps
create_chunks_from_topic_empty_steps(topic, fresh) ==
    LET tid == DocId(topic.id, fresh) IN
    <<TopicChunk(topic, tid, "core", "core_concept")>>
    \o (IF topic.detailed_explanation # <<>>
        THEN <<TopicChunk(topic, tid, "explanation", "detailed_explanation")>>
        ELSE <<>>)
    \o (IF topic.algorithm_steps # None
        THEN <<TopicChunk(topic, tid, "steps", "algorithm_steps")>>
        ELSE <<>>)
    \o <<TopicChunk(topic, tid, "complexity", "complexity")>>
    \o [i \in 1..Len(topic.code_examples) |-> TopicCodeChunk(topic, tid, i)]
    \o <<TopicChunk(topic, tid, "applications", "practical_applications")>>
    \o (IF topic.problem_patterns # <<>>
        THEN <<TopicChunk(topic, tid, "patterns", "problem_patterns")>>
        ELSE <<>>)
    \o <<TopicChunk(topic, tid, "implementation", "implementation_guide")>>

\* KnowledgeBaseService.create_chunks_from_topic; fresh is the uuid4 drawn when
\* the topic carries no id
create_chunks_from_topic(topic, fresh) ==
    LET tid == DocId(topic.id, fresh) IN
    <<TopicChunk(topic, tid, "core", "core_concept")>>
    \o (IF topic.detailed_explanation # <<>>
        THEN <<TopicChunk(topic, tid, "explanation", "detailed_explanation")>>
        ELSE <<>>)
    \o (IF topic.algorithm_steps # None /\ topic.algorithm_steps # <<>>
        THEN <<TopicChunk(topic, tid, "steps", "algorithm_steps")>>
        ELSE <<>>)
    \o <<TopicChunk(topic, tid, "complexity", "complexity")>>
    \o [i \in 1..Len(topic.code_examples) |-> TopicCodeChunk(topic, tid, i)]
    \o <<TopicChunk(topic, tid, "applications", "practical_applications")>>
    \o (IF topic.problem_patterns # <<>>
        THEN <<TopicChunk(topic, tid, "patterns", "problem_patterns")>>
        ELSE <<>>)
    \o <<TopicChunk(topic, tid, "implementation", "implementation_guide")>>

ProblemMetadata(problem, pid, chunkType) ==
    [topic |-> Absent, topic_id |-> Absent, title |-> problem.title,
     problem_id |-> pid, chunk_type |-> chunkType, language |-> Absent]

ProblemChunk(problem, pid, tag, idx, chunkType) ==
    [id |-> ChunkId(pid, tag, <<>>, idx),
     text |-> [title |-> problem.title, type |-> chunkType, body |-> problem.body, lang |-> <<>>],
     metadata |-> ProblemMetadata(problem, pid, chunkType)]

\* ProblemService.create_chunks_from_problem
create_chunks_from_problem(problem, fresh) ==
    LET pid == DocId(problem.id, fresh) IN
    <<ProblemChunk(problem, pid, "description", 0, "problem_description"),
      ProblemChunk(problem, pid, "examples", 0, "examples")>>
    \o [i \in 1..Len(problem.approaches) |->
            ProblemChunk(problem, pid, "approach", i - 1, "solution_approach")]
    \o <<ProblemChunk(problem, pid, "hints", 0, "hints_guidance")>>

Range(f) == {f[i] : i \in DOMAIN f}

ChunkIds(chunks) == {c.id : c \in Range(chunks)}

\* collection.upsert(ids, embeddings, documents, metadatas): one call, entries
\* with an id of the batch are replaced, the others stay
Upsert(entries, chunks) ==
    {e \in entries : e.id \notin ChunkIds(chunks)} \cup Range(chunks)

----------------------------------------------------------------------------
(* Context resolver *)

NoFilter == [op |-> "none", clauses |-> <<>>]

\* {"topic": name}
EqFilter(key, val) == [op |-> "eq", clauses |-> <<[key |-> key, val |-> val]>>]

\* {"$or": [{k1: v}, {k2: v}]}
OrFilter(k1, k2, val) ==
    [op |-> "or", clauses |-> <<[key |-> k1, val |-> val], [key |-> k2, val |-> val]>>]

\* a bug: the reference after "problem:" keeps its surrounding whitespace
parse_context_unstripped(context) ==
    IF ~Truthy(context)
    THEN [collection_type |-> "topics", filters |-> NoFilter]
    ELSE IF StartsWith(context, TopicPrefix)
    THEN [collection_type |-> "topics",
          filters |-> EqFilter("topic", Strip(DropPrefix(context, 6)))]
    ELSE IF StartsWith(context, ProblemPrefix)
    THEN [collection_type |-> "problems",
          filters |-> OrFilter("title", "problem_id", DropPrefix(context, 8))]
    ELSE [collection_type |-> "topics", filters |-> EqFilter("topic", context)]

\* a bug: the topic filter is keyed "title", a key topic chunks do not carry
parse_context_title_key(context) ==
    IF ~Truthy(context)
    THEN [collection_type |-> "topics", filters |-> NoFilter]
    ELSE IF StartsWith(context, TopicPrefix)
    THEN [collection_type |-> "topics",
          filters |-> EqFilter("title", Strip(DropPrefix(context, 6)))]
    ELSE IF StartsWith(context, ProblemPrefix)
    THEN [collection_type |-> "problems",
          filters |-> OrFilter("title", "problem_id", Strip(DropPrefix(context, 8)))]
    ELSE [collection_type |-> "topics", filters |-> EqFilter("topic", context)]

\* a bug: only None counts as "no hint" (context is None instead of not context)
parse_context_none_only(context) ==
    IF context = None
    THEN [collection_type |-> "topics", filters |-> NoFilter]
    ELSE IF StartsWith(context, TopicPrefix)
    THEN [collection_type |-> "topics",
          filters |-> EqFilter("topic", Strip(DropPrefix(context, 6)))]
    ELSE IF StartsWith(context, ProblemPrefix)
    THEN [collection_type |-> "problems",
          filters |-> OrFilter("title", "problem_id", Strip(DropPrefix(context, 8)))]
    ELSE [collection_type |-> "topics", filters |-> EqFilter("topic", context)]

\* a bug: the unprefixed hint is stripped before it is used as the title
parse_context_raw_stripped(context) ==
    IF ~Truthy(context)
    THEN [collection_type |-> "topics", filters |-> NoFilter]
    ELSE IF StartsWith(context, TopicPrefix)
    THEN [collection_type |-> "topics",
          filters |-> EqFilter("topic", Strip(DropPrefix(context, 6)))]
    ELSE IF StartsWith(context, ProblemPrefix)
    THEN [collection_type |-> "problems",
          filters |-> OrFilter("title", "problem_id", Strip(DropPrefix(context, 8)))]
    ELSE [collection_type |-> "topics", filters |-> EqFilter("topic", Strip(context))]

\* QAService.parse_context
parse_context(context) ==
    IF ~Truthy(context)
    THEN [collection_type |-> "topics", filters |-> NoFilter]
    ELSE IF StartsWith(context, TopicPrefix)
    THEN [collection_type |-> "topics",
          filters |-> EqFilter("topic", Strip(DropPrefix(context, 6)))]
    ELSE IF StartsWith(context, ProblemPrefix)
    THEN [collection_type |-> "problems",
          filters |-> OrFilter("title", "problem_id", Strip(DropPrefix(context, 8)))]
    ELSE [collection_type |-> "topics", filters |-> EqFilter("topic", context)]

----------------------------------------------------------------------------
(* Vector store query (Chroma), as the retriever uses it *)

\* where-filter of collection.query: None matches everything, a clause matches
\* a chunk whose metadata carries the key with that value
Matches(where, metadata) ==
    \/ where.op = "none"
    \/ \E i \in DOMAIN where.clauses :
          /\ metadata[where.clauses[i].key] # Absent
          /\ metadata[where.clauses[i].key] = where.clauses[i].val

Matching(entries, where) == {e \in entries : Matches(where, e.metadata)}

Min(a, b) == IF a <= b THEN a ELSE b

\* Cosine distances the store may report, in units of 10^-5
\* (0.2, 0.29996, 0.3, 0.30004, 0.4, 1.2)
Distances == {20000, 29996, 30000, 30004, 40000, 120000}

\* The answers collection.query may give for m hits among the chunks S: distinct
\* chunks, nearest first, with distances at least lo
RECURSIVE Answers(_, _, _)
Answers(S, m, lo) ==
    IF m = 0 \/ S = {}
    THEN {<<>>}
    ELSE UNION {{<<[chunk |-> c, distance |-> d]>> \o rest : rest \in Answers(S \ {c}, m - 1, d)} :
                    c \in S, d \in {x \in Distances : x >= lo}}

\* What the embedding model and the store do for one retrieval: the embedding
\* call fails, the query fails, or the store answers with the n nearest matches
RetrievalEnvs(entries, where, n) ==
    {[embed |-> "error", query |-> "unused", hits |-> <<>>],
     [embed |-> "ok", query |-> "error", hits |-> <<>>]}
    \cup {[embed |-> "ok", query |-> "ok", hits |-> a] :
            a \in Answers(Matching(entries, where), Min(n, Cardinality(Matching(entries, where))), 0)}

----------------------------------------------------------------------------
(* Retriever *)

\* a bug: the getter returns the cached attribute and never asks the client
get_collection_cached_only(cached, exists) == cached

\* QAService._get_topic_collection / _get_problem_collection: the handle after
\* the call (TRUE: a collection object, FALSE: None)
get_collection(cached, exists) == cached \/ exists

\* 1 - distance, in units of 10^-5
Similarity(distance) == 100000 - distance

\* a bug: truncation instead of rounding
Truncate4(x) == x \div 10

\* round(x, 4) of x given in units of 10^-5, in units of 10^-4 (round half to even)
Round4(x) ==
    LET q == x \div 10
        r == x % 10
    IN  IF r < 5 THEN q
        ELSE IF r > 5 THEN q + 1
        ELSE IF q % 2 = 0 THEN q ELSE q + 1

\* the "is_relevant" entry of a retrieved chunk
is_relevant(distance) == Similarity(distance) > RelevanceLiteral

\* one entry of retrieved_chunks
RetrievedChunk(hit, context) ==
    [content |-> hit.chunk.text,
     metadata |-> hit.chunk.metadata,
     similarity_score |-> Round4(Similarity(hit.distance)),
     is_relevant |-> is_relevant(hit.distance),
     context_used |-> context]

\* a bug: a failure of the embedding call or of the query is swallowed and an
\* empty list is returned
query_collection_swallows(context, n_results, env) ==
    LET query == [collection |-> parse_context(context).collection_type,
                  where |-> parse_context(context).filters,
                  n_results |-> n_results]
    IN
    IF env.embed = "error"
    THEN [raised |-> FALSE, error |-> "", chunks |-> <<>>, embed |-> 1, queries |-> <<>>]
    ELSE IF env.query = "error"
    THEN [raised |-> FALSE, error |-> "", chunks |-> <<>>, embed |-> 1,
          queries |-> <<query>>]
    ELSE [raised |-> FALSE, error |-> "",
          chunks |-> [i \in 1..Len(env.hits) |-> RetrievedChunk(env.hits[i], context)],
          embed |-> 1, queries |-> <<query>>]

\* QAService.retrieve_relevant_chunks_with_context once it holds a collection:
\* embed the query, query the collection, format the results
query_collection(context, n_results, env) ==
    LET query == [collection |-> parse_context(context).collection_type,
                  where |-> parse_context(context).filters,
                  n_results |-> n_results]
    IN
    IF env.embed = "error"
    THEN [raised |-> TRUE, error |-> "EmbeddingError", chunks |-> <<>>,
          embed |-> 1, queries |-> <<>>]
    ELSE IF env.query = "error"
    THEN [raised |-> TRUE, error |-> "StoreQueryError", chunks |-> <<>>,
          embed |-> 1, queries |-> <<query>>]
    ELSE [raised |-> FALSE, error |-> "",
          chunks |-> [i \in 1..Len(env.hits) |-> RetrievedChunk(env.hits[i], context)],
          embed |-> 1, queries |-> <<query>>]

\* a bug: the absent collection is reported as an error
retrieve_missing_collection_raises(context, n_results, handle, env) ==
    IF ~handle
    THEN [raised |-> TRUE, error |-> "NotFoundError", chunks |-> <<>>,
          embed |-> 0, queries |-> <<>>]
    ELSE query_collection(context, n_results, env)

\* QAService.retrieve_relevant_chunks_with_context, given the handle the lazy
\* getter returned and what the collaborators did: the outcome, the number of
\* embedding calls and the store queries issued
retrieve_relevant_chunks_with_context(context, n_results, handle, env) ==
    IF ~handle
    THEN [raised |-> FALSE, error |-> "", chunks |-> <<>>, embed |-> 0, queries |-> <<>>]
    ELSE query_collection(context, n_results, env)

\* the collaborator that failed during a retrieval ("" when none did)
RetrievalFailure(handle, env) ==
    IF ~handle THEN ""
    ELSE IF env.embed = "error" THEN "EmbeddingError"
    ELSE IF env.query = "error" THEN "StoreQueryError"
    ELSE ""

\* the generation service was not reached
NoGeneration == [outcome |-> "unused", reply |-> <<>>]

\* log of one handler's use of its collaborators: the calls made, the hits the
\* store returned, what the generation service did, and the collaborator that
\* failed
RetrievalCalls(r, handle, env) ==
    [embed |-> r.embed, queries |-> r.queries,
     hits |-> IF handle THEN env.hits ELSE <<>>,
     llm |-> <<>>, generation |-> NoGeneration, upserts |-> 0,
     failure |-> RetrievalFailure(handle, env)]

\* a bug: strict comparison with the threshold
is_search_successful_strict(chunks, similarity_threshold) ==
    IF chunks = <<>>
    THEN FALSE
    ELSE \E i \in DOMAIN chunks : chunks[i].similarity_score * 10 > similarity_threshold

\* QAService.is_search_successful; the threshold is in units of 10^-5
is_search_successful(chunks, similarity_threshold) ==
    IF chunks = <<>>
    THEN FALSE
    ELSE \E i \in DOMAIN chunks : chunks[i].similarity_score * 10 >= similarity_threshold

----------------------------------------------------------------------------
(* Ingestion *)

\* What the collaborators do during one ingestion of n chunks: all calls
\* succeed, the k-th embedding call raises, or the upsert raises
IngestEnvs(n) ==
    {[embedFailAt |-> 0, upsert |-> "ok"], [embedFailAt |-> 0, upsert |-> "error"]}
    \cup {[embedFailAt |-> k, upsert |-> "unused"] : k \in 1..n}

\* a bug: the chunks embedded before the failing call are written
ingest_chunks_partial(entries, chunks, env) ==
    IF env.embedFailAt > 0
    THEN [raised |-> TRUE, error |-> "EmbeddingError", chunk_count |-> 0,
          embed |-> env.embedFailAt, upserts |-> 1,
          entries |-> Upsert(entries, SubSeq(chunks, 1, env.embedFailAt - 1))]
    ELSE IF env.upsert = "error"
    THEN [raised |-> TRUE, error |-> "StoreWriteError", chunk_count |-> 0,
          embed |-> Len(chunks), upserts |-> 1, entries |-> entries]
    ELSE [raised |-> FALSE, error |-> "", chunk_count |-> Len(chunks),
          embed |-> Len(chunks), upserts |-> 1, entries |-> Upsert(entries, chunks)]

\* a bug: one embedding call for the whole batch
ingest_chunks_one_embedding(entries, chunks, env) ==
    IF env.embedFailAt > 0
    THEN [raised |-> TRUE, error |-> "EmbeddingError", chunk_count |-> 0,
          embed |-> 1, upserts |-> 0, entries |-> entries]
    ELSE IF env.upsert = "error"
    THEN [raised |-> TRUE, error |-> "StoreWriteError", chunk_count |-> 0,
          embed |-> 1, upserts |-> 1, entries |-> entries]
    ELSE [raised |-> FALSE, error |-> "", chunk_count |-> Len(chunks),
          embed |-> 1, upserts |-> 1, entries |-> Upsert(entries, chunks)]

\* KnowledgeBaseService.ingest_topic / ProblemService.ingest_problem after the
\* chunker: embed every chunk, then one upsert of the whole batch
ingest_chunks(entries, chunks, env) ==
    IF env.embedFailAt > 0
    THEN [raised |-> TRUE, error |-> "EmbeddingError", chunk_count |-> 0,
          embed |-> env.embedFailAt, upserts |-> 0, entries |-> entries]
    ELSE IF env.upsert = "error"
    THEN [raised |-> TRUE, error |-> "StoreWriteError", chunk_count |-> 0,
          embed |-> Len(chunks), upserts |-> 1, entries |-> entries]
    ELSE [raised |-> FALSE, error |-> "", chunk_count |-> Len(chunks),
          embed |-> Len(chunks), upserts |-> 1, entries |-> Upsert(entries, chunks)]

\* routes: POST /ingest of a topic or a problem
ingest_route(op, doc, r) ==
    IF r.raised
    THEN [op |-> op, status |-> 500, detail |-> r.error, doc |-> doc, chunk_count |-> 0]
    ELSE [op |-> op, status |-> 200, detail |-> "", doc |-> doc, chunk_count |-> r.chunk_count]

\* log of one ingestion's use of its collaborators
IngestCalls(r, env) ==
    [embed |-> r.embed, queries |-> <<>>, hits |-> <<>>, llm |-> <<>>,
     generation |-> NoGeneration, upserts |-> r.upserts,
     failure |-> IF env.embedFailAt > 0 THEN "EmbeddingError"
                 ELSE IF env.upsert = "error" THEN "StoreWriteError"
                 ELSE ""]

NoCalls ==
    [embed |-> 0, queries |-> <<>>, hits |-> <<>>, llm |-> <<>>,
     generation |-> NoGeneration, upserts |-> 0, failure |-> ""]

NoIngest == [kind |-> "none"]

\* active_quizzes: Dict[str, Dict] = {}
NoQuizzes == [id \in {} |-> None]

\* no evaluate request has been handled
NoEvaluation == [kind |-> "none"]

\* no ingestion is in progress in a concurrent worker
NoJob == [pc |-> "none"]

\* import of app.services.kb_service: get_or_create_collection("topics")
LoadKbService ==
    /\ phase = "idle"
    /\ "kb" \notin loaded
    /\ loaded' = loaded \cup {"kb"}
    /\ collections' = collections \cup {"topics"}
    /\ UNCHANGED <<store, handles, uuidCount, phase, res, calls, ingestCount, lastIngest, job,
                   active_quizzes, lastEvaluation, missed>>

\* import of app.services.problem_service: get_collection("problems"), created
\* when it does not exist
LoadProblemService ==
    /\ phase = "idle"
    /\ "problem" \notin loaded
    /\ loaded' = loaded \cup {"problem"}
    /\ collections' = collections \cup {"problems"}
    /\ UNCHANGED <<store, handles, uuidCount, phase, res, calls, ingestCount, lastIngest, job,
                   active_quizzes, lastEvaluation, missed>>

Ingest(op, coll, doc, chunks, env) ==
    LET r == ingest_chunks(store[coll], chunks, env) IN
    /\ store' = [store EXCEPT ![coll] = r.entries]
    /\ uuidCount' = IF Truthy(doc.id) THEN uuidCount ELSE uuidCount + 1
    /\ res' = ingest_route(op, doc, r)
    /\ calls' = IngestCalls(r, env)
    /\ ingestCount' = ingestCount + 1
    /\ lastIngest' = [kind |-> op, doc |-> doc, ids |-> ChunkIds(chunks), ok |-> ~r.raised]
    /\ phase' = "responded"
    /\ UNCHANGED <<collections, loaded, handles, job, active_quizzes, lastEvaluation, missed>>

\* POST /api/topics/ingest
IngestTopic(doc) ==
    /\ phase = "idle"
    /\ "kb" \in loaded
    /\ ingestCount < MaxIngest
    /\ Truthy(doc.id) \/ uuidCount < MaxUuid
    /\ LET chunks == create_chunks_from_topic(doc, Uuid(uuidCount + 1)) IN
       \E env \in IngestEnvs(Len(chunks)) :
          Ingest("ingest_topic", "topics", doc, chunks, env)

\* a bug: the problem service upserts into the topics collection
IngestProblem_into_topics(doc) ==
    /\ phase = "idle"
    /\ "problem" \in loaded
    /\ ingestCount < MaxIngest
    /\ Truthy(doc.id) \/ uuidCount < MaxUuid
    /\ LET chunks == create_chunks_from_problem(doc, Uuid(uuidCount + 1)) IN
       \E env \in IngestEnvs(Len(chunks)) :
          Ingest("ingest_problem", "topics", doc, chunks, env)

\* POST /api/problems/ingest
IngestProblem(doc) ==
    /\ phase = "idle"
    /\ "problem" \in loaded
    /\ ingestCount < MaxIngest
    /\ Truthy(doc.id) \/ uuidCount < MaxUuid
    /\ LET chunks == create_chunks_from_problem(doc, Uuid(uuidCount + 1)) IN
       \E env \in IngestEnvs(Len(chunks)) :
          Ingest("ingest_problem", "problems", doc, chunks, env)

\* the response leaves the service; the next request may be handled
Respond ==
    /\ phase = "responded"
    /\ phase' = "idle"
    /\ res' = [op |-> "none"]
    /\ calls' = NoCalls
    /\ UNCHANGED <<collections, store, loaded, handles, uuidCount, ingestCount, lastIngest, job,
                   active_quizzes, lastEvaluation, missed>>

\* sequences over S of length at most n
RECURSIVE SeqsUpTo(_, _)
SeqsUpTo(S, n) ==
    IF n = 0 THEN {<<>>}
    ELSE SeqsUpTo(S, n - 1) \cup {Append(q, x) : q \in {t \in SeqsUpTo(S, n - 1) : Len(t) = n - 1}, x \in S}

Langs == {<<"p", "y">>}

TopicDoc(id, explanation, steps, code, patterns) ==
    [id |-> id, title |-> <<"a", "b">>, body |-> "v1",
     detailed_explanation |-> explanation, algorithm_steps |-> steps,
     code_examples |-> code, problem_patterns |-> patterns]

\* topics submitted for ingestion: every combination of the optional sections
\* under one id, a topic with an empty explanation, and topics without an id
\* (id None and id "")
TopicDocs ==
    {TopicDoc(<<"t", "1">>, <<"e">>, s, c, p) :
        s \in {None, <<>>, <<"s">>}, c \in SeqsUpTo(Langs, MaxSections), p \in {<<>>, <<"w">>}}
    \cup {TopicDoc(<<"t", "1">>, <<>>, None, <<>>, <<>>),
          TopicDoc(None, <<"e">>, None, <<<<"p", "y">>>>, <<>>),
          TopicDoc(<<>>, <<"e">>, None, <<>>, <<>>)}

ProblemDoc(id, approaches) ==
    [id |-> id, title |-> <<"a", "b">>, body |-> "v1", approaches |-> approaches]

\* problems submitted for ingestion
ProblemDocs ==
    {ProblemDoc(<<"p", "1">>, a) : a \in SeqsUpTo({<<"h">>}, MaxSections)}
    \cup {ProblemDoc(None, <<<<"h">>>>)}

Init ==
    /\ collections = {}
    /\ store = [c \in {"topics", "problems"} |-> {}]
    /\ loaded = {}
    /\ handles = [c \in {"topics", "problems"} |-> FALSE]
    /\ uuidCount = 0
    /\ phase = "idle"
    /\ res = [op |-> "none"]
    /\ calls = NoCalls
    /\ ingestCount = 0
    /\ lastIngest = NoIngest
    /\ job = NoJob
    /\ active_quizzes = NoQuizzes
    /\ lastEvaluation = NoEvaluation
    /\ missed = {}

NextIngest ==
    \/ LoadKbService
    \/ LoadProblemService
    \/ \E doc \in TopicDocs : IngestTopic(doc)
    \/ \E doc \in ProblemDocs : IngestProblem(doc)
    \/ Respond

\* the ingestion service
SpecIngest == Init /\ [][NextIngest]_vars

----------------------------------------------------------------------------
(* Search route *)

\* request.n_results if request.n_results is not None else 5
NResultsOf(request) ==
    IF request.n_results # <<>> THEN request.n_results[1] ELSE DefaultNResults

\* request.similarity_threshold if ... is not None else 0.7
ThresholdOf(request) ==
    IF request.similarity_threshold # <<>>
    THEN request.similarity_threshold[1]
    ELSE DefaultThreshold

\* sum(1 for chunk in chunks if chunk['is_relevant'])
RelevantCount(chunks) == Cardinality({i \in DOMAIN chunks : chunks[i].is_relevant})

\* max((chunk['similarity_score'] for chunk in chunks), default=0.0)
TopSimilarity(chunks) ==
    IF chunks = <<>> THEN 0
    ELSE CHOOSE m \in {chunks[i].similarity_score : i \in DOMAIN chunks} :
            \A i \in DOMAIN chunks : chunks[i].similarity_score <= m

\* routes/qa.py search_with_context, given the outcome r of the retrieval
search_with_context(request, r) ==
    IF r.raised
    THEN [op |-> "search", status |-> 500, detail |-> r.error, request |-> request]
    ELSE [op |-> "search", status |-> 200, detail |-> "", request |-> request,
          query |-> request.query,
          collection_type |->
              IF Truthy(request.context) /\ StartsWith(request.context, ProblemPrefix)
              THEN "problems" ELSE "topics",
          is_successful |-> is_search_successful(r.chunks, ThresholdOf(request)),
          total_chunks_found |-> Len(r.chunks),
          relevant_chunks_count |-> RelevantCount(r.chunks),
          chunks |-> r.chunks,
          top_similarity_score |-> TopSimilarity(r.chunks),
          context_used |-> request.context]

\* the collaborators are not reached (the collection handle is None)
NoEnv == [embed |-> "unused", query |-> "unused", hits |-> <<>>]

\* a bug: a partition once found absent is never looked up again
HandleFor_remembers_absence(context) ==
    \/ handles[parse_context(context).collection_type]
    \/ /\ parse_context(context).collection_type \in collections
       /\ parse_context(context).collection_type \notin missed

\* the lazily obtained handle of the collection the context selects
HandleFor(context) ==
    get_collection(handles[parse_context(context).collection_type],
                   parse_context(context).collection_type \in collections)

\* the partitions found absent so far, after a retrieval on this partition got
\* this handle: line 103 of qa_service.py returns early and keeps nothing
Missed(partition, handle) == IF handle THEN missed ELSE missed \cup {partition}

\* what the collaborators may do for a retrieval with this context and n_results
EnvsFor(context, n) ==
    IF HandleFor(context)
    THEN RetrievalEnvs(store[parse_context(context).collection_type],
                       parse_context(context).filters, n)
    ELSE {NoEnv}

\* POST /api/search
SearchWithContext(request) ==
    /\ phase = "idle"
    /\ \E env \in EnvsFor(request.context, NResultsOf(request)) :
          LET handle == HandleFor(request.context)
              r == retrieve_relevant_chunks_with_context(request.context, NResultsOf(request),
                                                        handle, env)
          IN  /\ res' = search_with_context(request, r)
              /\ calls' = RetrievalCalls(r, handle, env)
              /\ handles' = [handles EXCEPT ![parse_context(request.context).collection_type] = handle]
              /\ missed' = Missed(parse_context(request.context).collection_type, handle)
    /\ phase' = "responded"
    /\ UNCHANGED <<collections, store, loaded, uuidCount, ingestCount, lastIngest, job,
                   active_quizzes, lastEvaluation>>

\* context hints of the requests
Hints ==
    {None, <<>>,
     TopicPrefix \o <<"a", "b">>,
     TopicPrefix \o <<" ", "a", "b", "\t">>,
     TopicPrefix \o <<"z">>,
     TopicPrefix,
     ProblemPrefix \o <<"a", "b">>,
     ProblemPrefix \o <<"p", "1">>,
     ProblemPrefix \o <<"\t", "p", "1", " ">>,
     ProblemPrefix \o <<"z">>,
     <<"a", "b">>,
     <<" ", "a", "b">>,
     <<"T">> \o Tail(TopicPrefix) \o <<"a", "b">>,
     <<" ">> \o ProblemPrefix \o <<"a", "b">>,
     <<"p", "r", "o", "b", "l", "e", "m">>}

\* thresholds a caller may supply (0.5, 0.9), in units of 10^-5; a request
\* without one gets the default 0.7
Thresholds == {50000, 90000}

\* a query text that carries a keyword of the legacy classifier
KeywordQuery == <<"s", "o", "l", "v", "e">>

\* search requests: every hint, n_results and threshold with one query text, and
\* the requests without a hint also with a second query text
SearchRequests ==
    [query : {<<"q">>},
     context : Hints,
     n_results : {<<>>, <<1>>, <<2>>},
     similarity_threshold : {<<>>} \cup {<<t>> : t \in Thresholds}]
    \cup [query : {KeywordQuery},
          context : {None, <<>>},
          n_results : {<<>>, <<1>>},
          similarity_threshold : {<<>>}]

\* the documents of the populated knowledge base a search may find
SearchTopic == TopicDoc(<<"t", "1">>, <<>>, None, <<>>, <<>>)
SearchProblem == ProblemDoc(<<"p", "1">>, <<>>)

\* States of the knowledge base a query may find: the database never touched by
\* the ingestion services; both collections created and empty; one topic and
\* one problem ingested
InitSearch ==
    /\ uuidCount = 0
    /\ job = NoJob
    /\ active_quizzes = NoQuizzes
    /\ lastEvaluation = NoEvaluation
    /\ missed = {}
    /\ phase = "idle"
    /\ res = [op |-> "none"]
    /\ calls = NoCalls
    /\ handles = [c \in {"topics", "problems"} |-> FALSE]
    /\ \/ /\ loaded = {}
          /\ collections = {}
          /\ store = [c \in {"topics", "problems"} |-> {}]
          /\ ingestCount = 0
          /\ lastIngest = NoIngest
       \/ /\ loaded = {"kb", "problem"}
          /\ collections = {"topics", "problems"}
          /\ store = [c \in {"topics", "problems"} |-> {}]
          /\ ingestCount = 0
          /\ lastIngest = NoIngest
       \/ /\ loaded = {"kb", "problem"}
          /\ collections = {"topics", "problems"}
          /\ store = [c \in {"topics", "problems"} |->
                        IF c = "topics"
                        THEN Range(create_chunks_from_topic(SearchTopic, None))
                        ELSE Range(create_chunks_from_problem(SearchProblem, None))]
          /\ ingestCount = 2
          /\ lastIngest = [kind |-> "ingest_problem", doc |-> SearchProblem,
                           ids |-> ChunkIds(create_chunks_from_problem(SearchProblem, None)),
                           ok |-> TRUE]

Next ==
    \/ \E request \in SearchRequests : SearchWithContext(request)
    \/ Respond

\* the search service
Spec == InitSearch /\ [][Next]_vars

----------------------------------------------------------------------------
(* Legacy search route *)

UpperCase == <<"A", "B", "C", "D", "E", "F", "G", "H", "I", "J", "K", "L", "M",
               "N", "O", "P", "Q", "R", "S", "T", "U", "V", "W", "X", "Y", "Z">>
LowerCase == <<"a", "b", "c", "d", "e", "f", "g", "h", "i", "j", "k", "l", "m",
               "n", "o", "p", "q", "r", "s", "t", "u", "v", "w", "x", "y", "z">>

\* str.lower() of one character
LowerChar(c) ==
    IF \E i \in DOMAIN UpperCase : UpperCase[i] = c
    THEN LowerCase[CHOOSE i \in DOMAIN UpperCase : UpperCase[i] = c]
    ELSE c

\* query.lower()
Lower(s) == [i \in DOMAIN s |-> LowerChar(s[i])]

\* keyword in query_lower
IsSubstring(sub, s) ==
    \E i \in 1..(Len(s) - Len(sub) + 1) : SubSeq(s, i, i + Len(sub) - 1) = sub

\* problem_keywords of determine_collection_type
problem_keywords ==
    <<<<"s", "o", "l", "v", "e">>,
      <<"p", "r", "o", "b", "l", "e", "m">>,
      <<"l", "e", "e", "t", "c", "o", "d", "e">>,
      <<"c", "o", "d", "e", "f", "o", "r", "c", "e", "s">>,
      <<"h", "a", "c", "k", "e", "r", "r", "a", "n", "k">>,
      <<"s", "o", "l", "u", "t", "i", "o", "n">>,
      <<"a", "p", "p", "r", "o", "a", "c", "h">>,
      <<"a", "l", "g", "o", "r", "i", "t", "h", "m", " ", "f", "o", "r">>,
      <<"h", "o", "w", " ", "t", "o", " ", "c", "o", "d", "e">>,
      <<"i", "m", "p", "l", "e", "m", "e", "n", "t">>,
      <<"w", "r", "i", "t", "e", " ", "a", " ", "f", "u", "n", "c", "t", "i", "o", "n">>,
      <<"c", "o", "d", "i", "n", "g", " ", "q", "u", "e", "s", "t", "i", "o", "n">>>>

\* a bug: the query is not lower-cased before the keywords are looked up
determine_collection_type_cased(query) ==
    IF \E k \in DOMAIN problem_keywords : IsSubstring(problem_keywords[k], query)
    THEN "problems"
    ELSE "topics"

\* QAService.determine_collection_type
determine_collection_type(query) ==
    IF \E k \in DOMAIN problem_keywords : IsSubstring(problem_keywords[k], Lower(query))
    THEN "problems"
    ELSE "topics"

\* QAService.retrieve_relevant_chunks(query, collection_type, n_results): the
\* collection type is not passed on, the retrieval runs without a context
retrieve_relevant_chunks(collection_type, n_results, handle, env) ==
    retrieve_relevant_chunks_with_context(None, n_results, handle, env)

\* routes/qa.py search_simple, given the outcome r of the retrieval
search_simple(query, n_results, threshold, r) ==
    IF r.raised
    THEN [op |-> "search_simple", status |-> 500, detail |-> r.error, query |-> query,
          n_results |-> n_results, threshold |-> threshold]
    ELSE [op |-> "search_simple", status |-> 200, detail |-> "", query |-> query,
          n_results |-> n_results, threshold |-> threshold,
          collection_type |-> determine_collection_type(query),
          search_successful |-> is_search_successful(r.chunks, threshold),
          relevant_chunks |-> RelevantCount(r.chunks),
          total_chunks |-> Len(r.chunks),
          top_similarity_score |-> TopSimilarity(r.chunks),
          results |-> r.chunks]

\* GET /api/search-simple
SearchSimple(query, n_results, threshold) ==
    /\ phase = "idle"
    /\ \E env \in EnvsFor(None, n_results) :
          LET handle == HandleFor(None)
              r == retrieve_relevant_chunks(determine_collection_type(query), n_results,
                                            handle, env)
          IN  /\ res' = search_simple(query, n_results, threshold, r)
              /\ calls' = RetrievalCalls(r, handle, env)
              /\ handles' = [handles EXCEPT ![parse_context(None).collection_type] = handle]
              /\ missed' = Missed(parse_context(None).collection_type, handle)
    /\ phase' = "responded"
    /\ UNCHANGED <<collections, store, loaded, uuidCount, ingestCount, lastIngest, job,
                   active_quizzes, lastEvaluation>>

\* query texts of the legacy search: with and without keywords, in several
\* letter cases, with keywords inside longer words and with broken keywords
SimpleQueries ==
    {<<>>,
     <<"q">>,
     <<"s", "o", "l", "v", "e">>,
     <<"S", "O", "L", "V", "E">>,
     <<"S", "o", "l", "v", "e", " ", "i", "t">>,
     <<"r", "e", "s", "o", "l", "v", "e", "d">>,
     <<"s", "o", "l", "v">>,
     <<"s", "o", "l", " ", "v", "e">>,
     <<"e", "v", "l", "o", "s">>,
     <<"a", "l", "g", "o", "r", "i", "t", "h", "m", " ", "f", "o", "r", " ", "x">>,
     <<"A", "l", "g", "o", "r", "i", "t", "h", "m", " ", "F", "o", "r">>,
     <<"a", "l", "g", "o", "r", "i", "t", "h", "m">>,
     <<"a", "l", "g", "o", "r", "i", "t", "h", "m", "f", "o", "r">>,
     <<"h", "o", "w", " ", "t", "o", " ", "c", "o", "d", "e">>,
     <<"h", "o", "w", " ", " ", "t", "o", " ", "c", "o", "d", "e">>,
     <<"H", "a", "c", "k", "e", "r", "R", "a", "n", "k">>,
     <<"h", "a", "c", "k", "e", "r", " ", "r", "a", "n", "k">>,
     <<"i", "m", "p", "l", "e", "m", "e", "n", "t", "a", "t", "i", "o", "n">>,
     <<"I", "M", "P", "L", "E", "M", "E", "N", "T">>,
     <<"w", "r", "i", "t", "e", " ", "a", " ", "f", "u", "n", "c", "t", "i", "o", "n">>,
     <<"W", "r", "i", "t", "e", " ", "A", " ", "F", "u", "n", "c", "t", "i", "o", "n">>,
     <<"w", "r", "i", "t", "e", " ", "f", "u", "n", "c", "t", "i", "o", "n">>,
     <<"c", "o", "d", "i", "n", "g", " ", "q", "u", "e", "s", "t", "i", "o", "n">>,
     <<"c", "o", "d", "i", "n", "g", "q", "u", "e", "s", "t", "i", "o", "n">>,
     <<"l", "e", "e", "t", "c", "o", "d", "e">>,
     <<"L", "e", "e", "t", "C", "o", "d", "e", " ", "1">>,
     <<"l", "e", "e", "t">>,
     <<"c", "o", "d", "e", "f", "o", "r", "c", "e", "s">>,
     <<"C", "o", "d", "e", "F", "o", "r", "c", "e", "s">>,
     <<"p", "r", "o", "b", "l", "e", "m">>,
     <<"P", "R", "O", "B", "L", "E", "M", "S">>,
     <<"a", " ", "p", "r", "o", "b", "l", "e">>,
     <<"a", "p", "p", "r", "o", "a", "c", "h">>,
     <<"A", "p", "p", "r", "o", "a", "c", "h">>,
     <<"s", "o", "l", "u", "t", "i", "o", "n">>,
     <<"S", "o", "L", "u", "T", "i", "O", "n">>,
     <<"b", "i", "n", "a", "r", "y", " ", "s", "e", "a", "r", "c", "h">>,
     <<"B", "i", "n", "a", "r", "y", " ", "S", "e", "a", "r", "c", "h">>}

NextSimple ==
    \/ \E query \in SimpleQueries : \E n_results \in {1, 2} :
          SearchSimple(query, n_results, DefaultThreshold)
    \/ Respond

\* the legacy search service
SpecSimple == InitSearch /\ [][NextSimple]_vars

----------------------------------------------------------------------------
(* Answer orchestrator *)

\* search_options.get('n_results', 5) if search_options else 5
\* (search_options is <<>> for None, <<d>> for a dict d; an empty dict is falsy)
OptionNResults(search_options) ==
    IF search_options # <<>> /\ search_options[1].n_results # <<>>
    THEN search_options[1].n_results[1]
    ELSE DefaultNResults

\* search_options.get('similarity_threshold', 0.7) if search_options else 0.7
OptionThreshold(search_options) ==
    IF search_options # <<>> /\ search_options[1].similarity_threshold # <<>>
    THEN search_options[1].similarity_threshold[1]
    ELSE DefaultThreshold

\* a bug: the except branch re-raises
rag_failure_reraised(query, error) ==
    [op |-> "rag", raised |-> TRUE, success |-> FALSE,
     error |-> <<"RAG pipeline failed: ", error>>,
     query |-> query, response |-> <<>>, sources |-> <<>>]

\* the except branch of generate_rag_response
rag_failure(query, error) ==
    [op |-> "rag", raised |-> FALSE, success |-> FALSE,
     error |-> <<"RAG pipeline failed: ", error>>,
     query |-> query, response |-> <<>>, sources |-> <<>>]

\* the attributes class QAService defines
QAServiceAttributes ==
    {"topic_collection", "problem_collection", "_get_topic_collection",
     "_get_problem_collection", "generate_embedding", "parse_context",
     "retrieve_relevant_chunks_with_context", "retrieve_relevant_chunks",
     "determine_collection_type", "is_search_successful"}

\* getattr(qa_service, name) succeeds; otherwise it raises AttributeError
HasAttr(name) == name \in QAServiceAttributes

\* what the generation service may do when invoked: fail, or reply with a text
LlmEnvs ==
    {[outcome |-> "error", reply |-> <<>>]}
    \cup {[outcome |-> "ok", reply |-> t] : t \in {<<"x">>, <<>>}}

\* a bug: str(response) instead of response.content
generate_response_repr(llm) == <<"AIMessage">> \o llm.reply

\* LLMService.generate_response: the content of the model's reply
generate_response(llm) == llm.reply

\* LLMService.generate_rag_response, given the outcome r of the retrieval and
\* what the generation service does when it is invoked: the result, and the
\* invocations of the generation service.  With chunks found the context is to
\* be built by qa_service._format_context_for_llm.
generate_rag_response(query, search_options, r, llm) ==
    IF r.raised
    THEN [result |-> rag_failure(query, r.error), llm |-> <<>>]
    ELSE IF r.chunks # <<>> /\ ~HasAttr("_format_context_for_llm")
    THEN [result |-> rag_failure(query, "AttributeError"), llm |-> <<>>]
    ELSE IF llm.outcome = "error"
    THEN [result |-> rag_failure(query, "GenerationError"),
          llm |-> <<[question |-> query, context |-> None]>>]
    ELSE [result |->
            [op |-> "rag", raised |-> FALSE, success |-> TRUE, error |-> <<>>,
             query |-> query,
             response |-> generate_response(llm),
             chunks_found |-> Len(r.chunks),
             context_quality |->
                 IF is_search_successful(r.chunks, OptionThreshold(search_options))
                 THEN "high" ELSE "low",
             fallback_to_general_knowledge |-> (Len(r.chunks) = 0),
             similarity_threshold |-> OptionThreshold(search_options),
             sources |-> r.chunks],
          llm |-> <<[question |-> query, context |-> None]>>]

\* generate_rag_response gets as far as the generation service: the retrieval
\* did not fail and returned no chunk
GenerationReached(handle, env) ==
    RetrievalFailure(handle, env) = "" /\ ~(handle /\ env.hits # <<>>)

\* the collaborator, or the attribute lookup, that failed during
\* generate_rag_response ("" when nothing did)
RagFailure(handle, env, llm) ==
    IF RetrievalFailure(handle, env) # "" THEN RetrievalFailure(handle, env)
    ELSE IF ~GenerationReached(handle, env) THEN "AttributeError"
    ELSE IF llm.outcome = "error" THEN "GenerationError"
    ELSE ""

\* llm_service.generate_rag_response(query, context, search_options)
GenerateRagResponse(query, context, search_options) ==
    /\ phase = "idle"
    /\ \E env \in EnvsFor(context, OptionNResults(search_options)), llm \in LlmEnvs :
          LET handle == HandleFor(context)
              r == retrieve_relevant_chunks_with_context(
                       context, OptionNResults(search_options), handle, env)
              g == generate_rag_response(query, search_options, r, llm)
          IN  /\ res' = g.result
              /\ calls' = [RetrievalCalls(r, handle, env) EXCEPT
                              !.llm = g.llm,
                              !.generation = IF GenerationReached(handle, env)
                                             THEN llm ELSE NoGeneration,
                              !.failure = RagFailure(handle, env, llm)]
              /\ handles' = [handles EXCEPT ![parse_context(context).collection_type] = handle]
              /\ missed' = Missed(parse_context(context).collection_type, handle)
    /\ phase' = "responded"
    /\ UNCHANGED <<collections, store, loaded, uuidCount, ingestCount, lastIngest, job,
                   active_quizzes, lastEvaluation>>

\* routes/qa.py ask_with_rag: after the retrieval it calls
\* qa_service.generate_llm_response; every exception becomes HTTP 500
ask_with_rag(request, r) ==
    IF r.raised
    THEN [op |-> "ask", status |-> 500, detail |-> r.error, request |-> request]
    ELSE IF ~HasAttr("generate_llm_response")
    THEN [op |-> "ask", status |-> 500, detail |-> "AttributeError", request |-> request]
    ELSE [op |-> "ask", status |-> 200, detail |-> "", request |-> request]

\* POST /api/ask
AskWithRag(request) ==
    /\ phase = "idle"
    /\ \E env \in EnvsFor(request.context, NResultsOf(request)) :
          LET handle == HandleFor(request.context)
              r == retrieve_relevant_chunks_with_context(request.context, NResultsOf(request),
                                                        handle, env)
          IN  /\ res' = ask_with_rag(request, r)
              /\ calls' = [RetrievalCalls(r, handle, env)
                            EXCEPT !.failure = IF @ # "" THEN @ ELSE "AttributeError"]
              /\ handles' = [handles EXCEPT ![parse_context(request.context).collection_type] = handle]
              /\ missed' = Missed(parse_context(request.context).collection_type, handle)
    /\ phase' = "responded"
    /\ UNCHANGED <<collections, store, loaded, uuidCount, ingestCount, lastIngest, job,
                   active_quizzes, lastEvaluation>>

\* search_options of the orchestrator's callers: None, {} and dicts with either key
SearchOptions ==
    {<<>>}
    \cup {<<[n_results |-> n, similarity_threshold |-> t]>> :
            n \in {<<>>, <<2>>}, t \in {<<>>, <<50000>>}}

\* context hints of the orchestrator's callers
AnswerHints ==
    {None, TopicPrefix \o <<"a", "b">>, ProblemPrefix \o <<"p", "1">>, <<"z">>}

AskRequests ==
    [query : {<<"q">>}, context : AnswerHints, n_results : {<<1>>},
     similarity_threshold : {<<>>}]

NextAnswer ==
    \/ \E context \in AnswerHints, search_options \in SearchOptions :
          GenerateRagResponse(<<"q">>, context, search_options)
    \/ \E request \in AskRequests : AskWithRag(request)
    \/ Respond

\* the answer service
SpecAnswer == InitSearch /\ [][NextAnswer]_vars

----------------------------------------------------------------------------
(* All query handlers of one service instance *)

\* search requests of the mixed workload: every hint, one or two results
QueryRequests ==
    [query : {<<"q">>},
     context : Hints,
     n_results : {<<1>>, <<2>>},
     similarity_threshold : {<<>>}]

NextQueries ==
    \/ \E request \in QueryRequests : SearchWithContext(request)
    \/ \E query \in SimpleQueries : \E n_results \in {1, 2} :
          SearchSimple(query, n_results, DefaultThreshold)
    \/ \E query \in {<<"q">>}, context \in AnswerHints, search_options \in SearchOptions :
          GenerateRagResponse(query, context, search_options)
    \/ \E request \in AskRequests : AskWithRag(request)
    \/ Respond

\* searches and answers, in any order, on one service instance
SpecQueries == InitSearch /\ [][NextQueries]_vars

----------------------------------------------------------------------------
(* Ingestion in a second worker, step by step, beside the searches *)

\* versions of a topic: the optional code examples and the rendered content vary
VersionedTopic(id, code, body) ==
    [id |-> id, title |-> <<"a", "b">>, body |-> body,
     detailed_explanation |-> <<"e">>, algorithm_steps |-> None,
     code_examples |-> code, problem_patterns |-> <<>>]

\* topics ingested beside the searches: a version with a code example, a later
\* version of the same topic without it, and a topic submitted without an id
ConcurrentDocs ==
    {VersionedTopic(<<"t", "1">>, <<<<"p", "y">>>>, "v1"),
     VersionedTopic(<<"t", "1">>, <<>>, "v2"),
     VersionedTopic(None, <<>>, "v1")}

\* ingest_topic: chunk the incoming topic (the request arrives when the response
\* of an earlier search has been delivered, so a response on record beside a
\* running ingestion is that of a search made during it)
BeginIngestTopic(doc) ==
    /\ job.pc = "none"
    /\ phase = "idle"
    /\ "kb" \in loaded
    /\ ingestCount < MaxIngest
    /\ Truthy(doc.id) \/ uuidCount < MaxUuid
    /\ job' = [pc |-> "embedding", doc |-> doc,
               chunks |-> create_chunks_from_topic(doc, Uuid(uuidCount + 1)),
               embedded |-> 0, old |-> store["topics"]]
    /\ uuidCount' = IF Truthy(doc.id) THEN uuidCount ELSE uuidCount + 1
    /\ UNCHANGED <<collections, store, loaded, handles, phase, res, calls, ingestCount,
                   lastIngest, active_quizzes, lastEvaluation, missed>>

\* ingest_topic: generate_embedding for the next chunk
EmbedChunk ==
    /\ job.pc = "embedding"
    /\ job.embedded < Len(job.chunks)
    /\ job' = [job EXCEPT !.embedded = @ + 1]
    /\ UNCHANGED <<collections, store, loaded, handles, uuidCount, phase, res, calls,
                   ingestCount, lastIngest, active_quizzes, lastEvaluation, missed>>

\* ingest_topic: generate_embedding raises, the request fails
EmbedChunkFails ==
    /\ job.pc = "embedding"
    /\ job.embedded < Len(job.chunks)
    /\ job' = NoJob
    /\ ingestCount' = ingestCount + 1
    /\ lastIngest' = [kind |-> "ingest_topic", doc |-> job.doc,
                      ids |-> ChunkIds(job.chunks), ok |-> FALSE]
    /\ UNCHANGED <<collections, store, loaded, handles, uuidCount, phase, res, calls,
                   active_quizzes, lastEvaluation, missed>>

\* ingest_topic: one collection.upsert of the whole batch
UpsertChunks ==
    /\ job.pc = "embedding"
    /\ job.embedded = Len(job.chunks)
    /\ store' = [store EXCEPT !["topics"] = Upsert(@, job.chunks)]
    /\ job' = [job EXCEPT !.pc = "upserted"]
    /\ UNCHANGED <<collections, loaded, handles, uuidCount, phase, res, calls, ingestCount,
                   lastIngest, active_quizzes, lastEvaluation, missed>>

\* ingest_topic: collection.upsert raises, the request fails
UpsertFails ==
    /\ job.pc = "embedding"
    /\ job.embedded = Len(job.chunks)
    /\ job' = NoJob
    /\ ingestCount' = ingestCount + 1
    /\ lastIngest' = [kind |-> "ingest_topic", doc |-> job.doc,
                      ids |-> ChunkIds(job.chunks), ok |-> FALSE]
    /\ UNCHANGED <<collections, store, loaded, handles, uuidCount, phase, res, calls,
                   active_quizzes, lastEvaluation, missed>>

\* ingest_topic: return len(chunks)
ReturnChunkCount ==
    /\ job.pc = "upserted"
    /\ job' = NoJob
    /\ ingestCount' = ingestCount + 1
    /\ lastIngest' = [kind |-> "ingest_topic", doc |-> job.doc,
                      ids |-> ChunkIds(job.chunks), ok |-> TRUE]
    /\ UNCHANGED <<collections, store, loaded, handles, uuidCount, phase, res, calls,
                   active_quizzes, lastEvaluation, missed>>

\* the elements of S in some fixed order
RECURSIVE SeqOf(_)
SeqOf(S) ==
    IF S = {} THEN <<>>
    ELSE LET x == CHOOSE y \in S : TRUE IN <<x>> \o SeqOf(S \ {x})

\* what the collaborators do for a search beside an ingestion: a failure, or
\* the n nearest matches, all at distance 0.2
ReaderEnvs(entries, where, n) ==
    {[embed |-> "error", query |-> "unused", hits |-> <<>>],
     [embed |-> "ok", query |-> "error", hits |-> <<>>],
     [embed |-> "ok", query |-> "ok",
      hits |-> [i \in 1..Min(n, Cardinality(Matching(entries, where))) |->
                   [chunk |-> SeqOf(Matching(entries, where))[i], distance |-> 20000]]]}

\* POST /api/search handled while an ingestion may be in progress
ConcurrentSearch(request) ==
    /\ phase = "idle"
    /\ LET handle == HandleFor(request.context)
           resolved == parse_context(request.context)
       IN  \E env \in (IF handle
                       THEN ReaderEnvs(store[resolved.collection_type], resolved.filters,
                                       NResultsOf(request))
                       ELSE {NoEnv}) :
              LET r == retrieve_relevant_chunks_with_context(request.context,
                                                             NResultsOf(request), handle, env)
              IN  /\ res' = search_with_context(request, r)
                  /\ calls' = RetrievalCalls(r, handle, env)
                  /\ handles' = [handles EXCEPT ![resolved.collection_type] = handle]
                  /\ missed' = Missed(resolved.collection_type, handle)
    /\ phase' = "responded"
    /\ UNCHANGED <<collections, store, loaded, uuidCount, ingestCount, lastIngest, job,
                   active_quizzes, lastEvaluation>>

\* searches for all chunks of the topic, by its title or without a hint
ReaderRequests ==
    [query : {<<"q">>},
     context : {None, TopicPrefix \o <<"a", "b">>},
     n_results : {<<ReaderNResults>>},
     similarity_threshold : {<<>>}]

\* the ingestion service is loaded, nothing is ingested yet
InitConcurrent ==
    /\ collections = {"topics"}
    /\ store = [c \in {"topics", "problems"} |-> {}]
    /\ loaded = {"kb"}
    /\ handles = [c \in {"topics", "problems"} |-> FALSE]
    /\ uuidCount = 0
    /\ phase = "idle"
    /\ res = [op |-> "none"]
    /\ calls = NoCalls
    /\ ingestCount = 0
    /\ lastIngest = NoIngest
    /\ job = NoJob
    /\ active_quizzes = NoQuizzes
    /\ lastEvaluation = NoEvaluation
    /\ missed = {}

NextConcurrent ==
    \/ \E doc \in ConcurrentDocs : BeginIngestTopic(doc)
    \/ EmbedChunk
    \/ EmbedChunkFails
    \/ UpsertChunks
    \/ UpsertFails
    \/ ReturnChunkCount
    \/ \E request \in ReaderRequests : ConcurrentSearch(request)
    \/ Respond

\* one worker ingesting while another answers searches
SpecConcurrent == InitConcurrent /\ [][NextConcurrent]_vars

----------------------------------------------------------------------------
(* One service instance from start-up: ingestion and search *)

\* topics of the lifecycle: a bare topic and one with a code example
LifecycleTopics ==
    {SearchTopic, TopicDoc(<<"t", "2">>, <<"e">>, None, <<<<"p", "y">>>>, <<>>)}

LifecycleProblems == {SearchProblem}

\* searches of the lifecycle: one per partition, with and without a filter
LifecycleRequests ==
    [query : {<<"q">>},
     context : {None, TopicPrefix \o <<"a", "b">>, ProblemPrefix \o <<"p", "1">>},
     n_results : {<<1>>},
     similarity_threshold : {<<>>}]

NextLifecycle ==
    \/ LoadKbService
    \/ LoadProblemService
    \/ \E doc \in LifecycleTopics : IngestTopic(doc)
    \/ \E doc \in LifecycleProblems : IngestProblem(doc)
    \/ \E request \in LifecycleRequests : SearchWithContext(request)
    \/ Respond

\* the service from an untouched database on
SpecLifecycle == Init /\ [][NextLifecycle]_vars

----------------------------------------------------------------------------
(* Quiz routes *)

\* quizzes that may be stored in one behaviour
MaxQuizzes == 2

\* shortuuid.uuid() for the n-th draw
QuizId(n) == <<"q", Digits[n]>>

\* str.upper() of one character
UpperChar(c) ==
    IF \E i \in DOMAIN LowerCase : LowerCase[i] = c
    THEN UpperCase[CHOOSE i \in DOMAIN LowerCase : LowerCase[i] = c]
    ELSE c

\* s.upper()
Upper(s) == [i \in DOMAIN s |-> UpperChar(s[i])]

\* s.find(c): the 0-based index of the first occurrence, -1 when there is none
Find(s, c) ==
    IF \E i \in DOMAIN s : s[i] = c
    THEN (CHOOSE i \in DOMAIN s : s[i] = c /\ \A j \in 1..(i - 1) : s[j] # c) - 1
    ELSE -1

\* s.rfind(c): the 0-based index of the last occurrence, -1 when there is none
RFind(s, c) ==
    IF \E i \in DOMAIN s : s[i] = c
    THEN (CHOOSE i \in DOMAIN s : s[i] = c /\ \A j \in (i + 1)..Len(s) : s[j] # c) - 1
    ELSE -1

\* s[a:b] for indexes a, b >= 0
Slice(s, a, b) == SubSeq(s, a + 1, Min(b, Len(s)))

\* The reply of the generation service is a sequence of tokens: prose "t", the
\* braces, and the members of one JSON object.  The objects it may write: a quiz
\* of no, one or two questions, one without the key "topic", one with a
\* difficulty that is no DifficultyLevel
QuizObjects == {"Q0", "Q1", "Q2", "QnoTopic", "Qhard"}

DifficultyLevels == {"beginner", "intermediate", "advanced"}

Question(text, correct) ==
    [question |-> text, options |-> <<<<"A">>, <<"B">>>>, correct_answer |-> correct,
     explanation |-> <<"x">>]

\* json.loads succeeds on the text
IsJson(text) ==
    /\ Len(text) = 3
    /\ text[1] = "{"
    /\ text[2] \in QuizObjects
    /\ text[3] = "}"

\* json.loads(json_str)
json_loads(text) ==
    [topic |-> IF text[2] = "QnoTopic" THEN Absent ELSE <<"t">>,
     difficulty |-> IF text[2] = "Qhard" THEN "hard" ELSE "intermediate",
     questions |->
         IF text[2] = "Q0" THEN <<>>
         ELSE IF text[2] = "Q2"
         THEN <<Question(<<"1">>, <<"A">>), Question(<<"2">>, <<" ", "b">>)>>
         ELSE <<Question(<<"1">>, <<"A">>)>>]

NoQuizData == [topic |-> Absent, difficulty |-> "", questions |-> <<>>]

\* what the generation service may do for a quiz prompt: fail, or reply with
\* an object, an object inside prose, prose only, or unbalanced braces
QuizLlmEnvs ==
    {[outcome |-> "error", reply |-> <<>>]}
    \cup {[outcome |-> "ok", reply |-> <<"{", b, "}">>] : b \in QuizObjects}
    \cup {[outcome |-> "ok", reply |-> r] :
            r \in {<<"t", "{", "Q1", "}", "t">>, <<"t">>, <<"{", "Q1">>,
                   <<"{", "Q1", "}", "}">>, <<"}", "Q1", "{">>}}

\* LLMService.generate_quiz
generate_quiz(llm) ==
    IF llm.outcome = "error"
    THEN [success |-> FALSE, error |-> "Quiz generation failed", quiz |-> NoQuizData]
    ELSE LET response == generate_response(llm)
             json_start == Find(response, "{")
             json_end == RFind(response, "}") + 1
         IN  IF json_start # -1 /\ json_end # -1
             THEN IF IsJson(Slice(response, json_start, json_end))
                  THEN [success |-> TRUE, error |-> "",
                        quiz |-> json_loads(Slice(response, json_start, json_end))]
                  ELSE [success |-> FALSE, error |-> "Invalid JSON response",
                        quiz |-> NoQuizData]
             ELSE [success |-> FALSE,
                   error |-> "Failed to parse quiz JSON from LLM response",
                   quiz |-> NoQuizData]

\* active_quizzes[quiz_id] = {...}
StoreQuiz(quizzes, quiz_id, quiz_data) ==
    [id \in DOMAIN quizzes \cup {quiz_id} |->
        IF id = quiz_id
        THEN [topic |-> quiz_data.topic, questions |-> quiz_data.questions,
              generated_at |-> "2024-01-01T00:00:00Z"]
        ELSE quizzes[id]]

\* routes/quiz_route.py generate_quiz, given the result of llm_service.generate_quiz
\* and the value of shortuuid.uuid(): the response and active_quizzes afterwards
generate_quiz_route(request, result, quiz_id, quizzes) ==
    IF ~result.success
    THEN [response |-> [op |-> "generate_quiz", status |-> 500, detail |-> result.error,
                        request |-> request, headers |-> {}],
          quizzes |-> quizzes]
    ELSE IF result.quiz.topic = Absent
    THEN [response |-> [op |-> "generate_quiz", status |-> 500, detail |-> "KeyError",
                        request |-> request, headers |-> {}],
          quizzes |-> quizzes]
    ELSE IF result.quiz.difficulty \notin DifficultyLevels
    THEN [response |-> [op |-> "generate_quiz", status |-> 500, detail |-> "ValueError",
                        request |-> request, headers |-> {}],
          quizzes |-> StoreQuiz(quizzes, quiz_id, result.quiz)]
    ELSE [response |-> [op |-> "generate_quiz", status |-> 200, detail |-> "",
                        request |-> request, headers |-> {},
                        topic |-> result.quiz.topic,
                        difficulty |-> result.quiz.difficulty,
                        questions |-> result.quiz.questions,
                        total_questions |-> Len(result.quiz.questions)],
          quizzes |-> StoreQuiz(quizzes, quiz_id, result.quiz)]

\* POST /api/quiz/generate
GenerateQuiz(request) ==
    /\ phase = "idle"
    /\ Cardinality(DOMAIN active_quizzes) < MaxQuizzes
    /\ \E llm \in QuizLlmEnvs :
          LET g == generate_quiz_route(request, generate_quiz(llm),
                                       QuizId(Cardinality(DOMAIN active_quizzes) + 1),
                                       active_quizzes)
          IN  /\ res' = g.response
              /\ active_quizzes' = g.quizzes
              /\ calls' = [NoCalls EXCEPT
                              !.generation = llm,
                              !.failure = IF llm.outcome = "error"
                                          THEN "GenerationError" ELSE ""]
    /\ phase' = "responded"
    /\ UNCHANGED <<collections, store, loaded, handles, uuidCount, ingestCount, lastIngest, job,
                   lastEvaluation, missed>>

\* user_answer.strip().upper() == correct_answer.strip().upper()
is_correct(user_answer, correct_answer) ==
    Upper(Strip(user_answer)) = Upper(Strip(correct_answer))

\* round((correct_count / len(questions)) * 100, 2), in units of 10^-2
score_percentage(correct_count, n) == (2 * correct_count * 10000 + n) \div (2 * n)

\* a bug: no comparison of the lengths, zip() pairs as many answers as there are
evaluate_quiz_answers_unchecked(questions, user_answers) ==
    IF Len(questions) = 0
    THEN [raised |-> TRUE, success |-> FALSE, error |-> "ZeroDivisionError",
          total_questions |-> 0, correct_answers |-> 0, score_percentage |-> 0,
          evaluations |-> <<>>]
    ELSE LET evaluations ==
                 [i \in 1..Min(Len(questions), Len(user_answers)) |->
                     [question |-> questions[i].question,
                      user_answer |-> user_answers[i],
                      correct_answer |-> questions[i].correct_answer,
                      is_correct |-> is_correct(user_answers[i], questions[i].correct_answer),
                      explanation |-> questions[i].explanation]]
             correct_count ==
                 Cardinality({i \in DOMAIN evaluations : evaluations[i].is_correct})
         IN  [raised |-> FALSE, success |-> TRUE, error |-> "",
              total_questions |-> Len(questions),
              correct_answers |-> correct_count,
              score_percentage |-> score_percentage(correct_count, Len(questions)),
              evaluations |-> evaluations]

\* LLMService.evaluate_quiz_answers
evaluate_quiz_answers(questions, user_answers) ==
    IF Len(user_answers) # Len(questions)
    THEN [raised |-> FALSE, success |-> FALSE,
          error |-> "Number of answers doesn't match number of questions",
          total_questions |-> 0, correct_answers |-> 0, score_percentage |-> 0,
          evaluations |-> <<>>]
    ELSE IF Len(questions) = 0
    THEN [raised |-> TRUE, success |-> FALSE, error |-> "ZeroDivisionError",
          total_questions |-> 0, correct_answers |-> 0, score_percentage |-> 0,
          evaluations |-> <<>>]
    ELSE LET evaluations ==
                 [i \in 1..Len(questions) |->
                     [question |-> questions[i].question,
                      user_answer |-> user_answers[i],
                      correct_answer |-> questions[i].correct_answer,
                      is_correct |-> is_correct(user_answers[i], questions[i].correct_answer),
                      explanation |-> questions[i].explanation]]
             correct_count ==
                 Cardinality({i \in 1..Len(questions) : evaluations[i].is_correct})
         IN  [raised |-> FALSE, success |-> TRUE, error |-> "",
              total_questions |-> Len(questions),
              correct_answers |-> correct_count,
              score_percentage |-> score_percentage(correct_count, Len(questions)),
              evaluations |-> evaluations]

\* routes/quiz_route.py evaluate_quiz
evaluate_quiz(submission, quizzes) ==
    IF ~Truthy(submission.quiz_id) \/ submission.quiz_id \notin DOMAIN quizzes
    THEN [op |-> "evaluate_quiz", status |-> 400,
          detail |-> "Invalid quiz ID or quiz not found", submission |-> submission]
    ELSE LET result == evaluate_quiz_answers(quizzes[submission.quiz_id].questions,
                                             submission.answers)
         IN  IF result.raised
             THEN [op |-> "evaluate_quiz", status |-> 500, detail |-> result.error,
                   submission |-> submission]
             ELSE IF ~result.success
             THEN [op |-> "evaluate_quiz", status |-> 500, detail |-> result.error,
                   submission |-> submission]
             ELSE [op |-> "evaluate_quiz", status |-> 200, detail |-> "",
                   submission |-> submission,
                   topic |-> quizzes[submission.quiz_id].topic,
                   total_questions |-> result.total_questions,
                   correct_answers |-> result.correct_answers,
                   score_percentage |-> result.score_percentage,
                   evaluations |-> result.evaluations]

\* POST /api/quiz/evaluate
EvaluateQuiz(submission) ==
    /\ phase = "idle"
    /\ res' = evaluate_quiz(submission, active_quizzes)
    /\ lastEvaluation' = [kind |-> "evaluate", submission |-> submission,
                          response |-> evaluate_quiz(submission, active_quizzes),
                          repeated |-> /\ lastEvaluation.kind = "evaluate"
                                       /\ lastEvaluation.submission = submission]
    /\ calls' = NoCalls
    /\ phase' = "responded"
    /\ UNCHANGED <<collections, store, loaded, handles, uuidCount, ingestCount, lastIngest, job,
                   active_quizzes, missed>>

\* quiz requests: the handler hands topic, difficulty and num_questions to the
\* prompt only
QuizRequests ==
    [topic : {<<"t">>}, difficulty : {"intermediate"}, num_questions : {1, 2}]

\* answers a client may type
AnswerTexts == {<<"A">>, <<" ", "a">>, <<"B">>}

\* submissions: without a quiz id, with an empty one, with one never issued and
\* with the ids the service may have issued
QuizSubmissions ==
    [quiz_id : {None, <<>>, <<"z">>} \cup {QuizId(n) : n \in 1..MaxQuizzes},
     answers : SeqsUpTo(AnswerTexts, 2)]

NextQuiz ==
    \/ \E request \in QuizRequests : GenerateQuiz(request)
    \/ \E submission \in QuizSubmissions : EvaluateQuiz(submission)
    \/ Respond

\* the quiz service
SpecQuiz == Init /\ [][NextQuiz]_vars

----------------------------------------------------------------------------
(* Properties *)

\* the collection an ingest request writes to
CollectionOf(kind) == IF kind = "ingest_topic" THEN "topics" ELSE "problems"

\* C1: for any topic or problem document D, with or without an id, ingesting D
\* twice in succession (both ingestions succeeding) produces the same set of
\* chunk ids both times, and after the second ingestion the store holds exactly
\* N entries for D, N being the number of chunks D produces.
C1_IdempotentIngestion ==
    [][(/\ ingestCount' = ingestCount + 1
        /\ lastIngest.kind = lastIngest'.kind
        /\ lastIngest.doc = lastIngest'.doc
        /\ lastIngest.ok
        /\ lastIngest'.ok)
       => (/\ lastIngest'.ids = lastIngest.ids
           /\ Cardinality({e \in store'[CollectionOf(lastIngest'.kind)] :
                              e.id \in lastIngest.ids \cup lastIngest'.ids})
                = Cardinality(lastIngest'.ids))]_vars

\* the context block of a grounded generation: the retrieved chunk texts in
\* retrieval order
ContextBlock(hits) == [i \in 1..Len(hits) |-> hits[i].chunk.text]

\* C2: in generate_rag_response, whenever the retrieval returns at least one
\* chunk, the generation service is invoked exactly once with a context block
\* made of all retrieved chunk texts in retrieval order, and the result carries
\* the generated answer with success = true.
C2_GroundedAnswer ==
    (res.op = "rag" /\ calls.hits # <<>>) =>
        /\ Len(calls.llm) = 1
        /\ calls.llm[1].context = ContextBlock(calls.hits)
        /\ res.success = TRUE
        /\ res.response = calls.generation.reply

\* C3: in generate_rag_response, whenever the retrieval returns zero chunks
\* (also when the partition was never populated) and the generation service
\* does not fail, the generation service is invoked without any context, its
\* text is returned as the answer, and the result is marked as a fallback.
C3_FallbackAnswer ==
    (res.op = "rag" /\ calls.failure = "" /\ calls.hits = <<>>) =>
        /\ Len(calls.llm) = 1
        /\ calls.llm[1].context = None
        /\ calls.generation.outcome = "ok"
        /\ res.response = calls.generation.reply
        /\ res.success = TRUE
        /\ res.fallback_to_general_knowledge = TRUE
        /\ res.sources = <<>>

\* a fallback answer on a database whose collections were never created
C3_Witness ==
    /\ res.op = "rag"
    /\ collections = {}
    /\ calls.failure = ""
    /\ calls.generation.reply = <<"x">>
    /\ res.response = <<"x">>
    /\ res.fallback_to_general_knowledge = TRUE

\* C4: generate_rag_response never lets an exception escape: for every failure
\* of the retriever, the embedding service, the vector store or the generation
\* service it returns a result with success = false, a non-empty error message,
\* an empty response and an empty sources list.
C4_FailureIsAResult ==
    res.op = "rag" =>
        /\ res.raised = FALSE
        /\ calls.failure # "" =>
              /\ res.success = FALSE
              /\ res.error # <<>>
              /\ res.response = <<>>
              /\ res.sources = <<>>

\* the generation service failed after a retrieval that found nothing
C4_Witness ==
    /\ res.op = "rag"
    /\ calls.failure = "GenerationError"
    /\ Len(calls.llm) = 1
    /\ res.success = FALSE

\* the threshold a search request carries, in units of 10^-5
RequestThreshold(request) ==
    IF request.similarity_threshold = <<>> THEN 70000 ELSE request.similarity_threshold[1]

\* C5: for a search request carrying relevance threshold t (0.7 when the caller
\* supplies none), every returned chunk has is_relevant = true if and only if
\* its reported similarity_score is strictly greater than t.
C5_RelevanceFollowsThreshold ==
    (res.op = "search" /\ res.status = 200) =>
        \A i \in DOMAIN res.chunks :
            res.chunks[i].is_relevant
                <=> (res.chunks[i].similarity_score * 10 > RequestThreshold(res.request))

\* C6: with threshold 0.7, a returned chunk whose similarity score is exactly
\* 0.7 has is_relevant = false, while a result set containing such a chunk is
\* reported as a successful search.
C6_BoundaryScore ==
    (res.op = "search" /\ res.status = 200 /\ RequestThreshold(res.request) = 70000) =>
        \A i \in DOMAIN res.chunks :
            res.chunks[i].similarity_score = 7000 =>
                (~res.chunks[i].is_relevant /\ res.is_successful)

\* C7: search success for threshold t is true if and only if at least one
\* returned chunk has similarity_score >= t; when zero chunks are returned,
\* success is false, the relevant-chunk count is 0, the top similarity is 0.0
\* and no error is raised.
C7_SearchSuccess ==
    res.op = "search" =>
        /\ (calls.failure = "" /\ calls.hits = <<>>) =>
              /\ res.status = 200
              /\ res.chunks = <<>>
              /\ res.is_successful = FALSE
              /\ res.relevant_chunks_count = 0
              /\ res.top_similarity_score = 0
        /\ res.status = 200 =>
              (res.is_successful <=>
                  \E i \in DOMAIN res.chunks :
                      res.chunks[i].similarity_score * 10 >= RequestThreshold(res.request))

\* a search that succeeds only because a score equals the threshold
C7_Witness ==
    /\ res.op = "search"
    /\ res.status = 200
    /\ res.is_successful
    /\ res.chunks # <<>>
    /\ \A i \in DOMAIN res.chunks :
          res.chunks[i].similarity_score * 10 <= RequestThreshold(res.request)

\* the partition a search request addresses
SearchedPartition(request) ==
    IF Truthy(request.context) /\ StartsWith(request.context, ProblemPrefix)
    THEN "problems" ELSE "topics"

\* C8 as stated: searching a partition that has no ingested documents, also one
\* whose collection has never been created, returns an empty chunk list and
\* success = false and never raises an error.
C8_EmptyPartitionNeverErrors ==
    (res.op = "search" /\ store[SearchedPartition(res.request)] = {}) =>
        /\ res.status = 200
        /\ res.chunks = <<>>
        /\ res.is_successful = FALSE

\* C8 as amended: searching a partition whose collection has never been created
\* reaches no collaborator, returns an empty chunk list and success = false and
\* never raises; searching an existing collection without documents returns the
\* same unless the embedding call or the store query itself fails, and only then
\* the search reports an error.
C8_EmptyPartitionAmended ==
    (res.op = "search" /\ store[SearchedPartition(res.request)] = {}) =>
        /\ SearchedPartition(res.request) \notin collections =>
              (res.status = 200 /\ calls.embed = 0 /\ calls.queries = <<>>)
        /\ res.status = 200 => (res.chunks = <<>> /\ res.is_successful = FALSE)
        /\ calls.failure = "" => res.status = 200
        /\ res.status # 200 => calls.failure \in {"EmbeddingError", "StoreQueryError"}

\* a search on a database whose collections were never created
C8_Witness ==
    /\ res.op = "search"
    /\ SearchedPartition(res.request) \notin collections
    /\ res.status = 200
    /\ res.chunks = <<>>
    /\ res.is_successful = FALSE

\* C9: for every returned chunk, similarity_score equals 1 - distance rounded to
\* 4 decimal digits; of two results the one with the smaller distance has the
\* greater or equal similarity_score; the returned list is in descending
\* similarity_score order whenever the store returns ascending distances.
C9_SimilarityMonotone ==
    (res.op = "search" /\ res.status = 200) =>
        LET score(i) == res.chunks[i].similarity_score
            dist(i) == calls.hits[i].distance
            n == Len(res.chunks)
        IN  /\ n = Len(calls.hits)
            /\ \A i \in 1..n :
                  /\ score(i) * 10 - (100000 - dist(i)) <= 5
                  /\ (100000 - dist(i)) - score(i) * 10 <= 5
            /\ \A i, j \in 1..n : dist(i) < dist(j) => score(i) >= score(j)
            /\ (\A i, j \in 1..n : i < j => dist(i) <= dist(j))
                  => (\A i, j \in 1..n : i < j => score(i) >= score(j))

\* a result with two different scores, one of them changed by the rounding
C9_Witness ==
    /\ res.op = "search"
    /\ res.status = 200
    /\ \E i, j \in DOMAIN res.chunks :
          /\ i < j
          /\ calls.hits[i].distance < calls.hits[j].distance
          /\ res.chunks[i].similarity_score > res.chunks[j].similarity_score
          /\ res.chunks[j].similarity_score * 10 # 100000 - calls.hits[j].distance

\* ref is rest with its surrounding whitespace removed
IsStrippedFrom(ref, rest) ==
    /\ ref # <<>> => (ref[1] \notin Whitespace /\ ref[Len(ref)] \notin Whitespace)
    /\ \E i \in 0..Len(rest) : \E j \in i..Len(rest) :
          /\ ref = SubSeq(rest, i + 1, j)
          /\ \A k \in 1..i : rest[k] \in Whitespace
          /\ \A k \in (j + 1)..Len(rest) : rest[k] \in Whitespace

\* C10: for any hint that begins with "problem:", the resolver selects partition
\* problems with the disjunctive filter title = ref OR problem_id = ref, ref
\* being the text after the prefix without its surrounding whitespace; the
\* retriever queries the problems collection with exactly that filter (it
\* issues the query once it holds the collection and has the embedding).
C10_ProblemHint ==
    (/\ res.op = "search"
     /\ Truthy(res.request.context)
     /\ StartsWith(res.request.context, ProblemPrefix)) =>
        LET resolved == parse_context(res.request.context)
            f == resolved.filters
        IN  /\ resolved.collection_type = "problems"
            /\ f.op = "or"
            /\ Len(f.clauses) = 2
            /\ f.clauses[1].key = "title"
            /\ f.clauses[2].key = "problem_id"
            /\ f.clauses[1].val = f.clauses[2].val
            /\ IsStrippedFrom(f.clauses[1].val, DropPrefix(res.request.context, 8))
            /\ \A k \in DOMAIN calls.queries :
                  /\ calls.queries[k].collection = "problems"
                  /\ calls.queries[k].where = f
            /\ ("problems" \in collections /\ calls.failure # "EmbeddingError")
                  => Len(calls.queries) = 1
            /\ res.status = 200 =>
                  \A i \in DOMAIN res.chunks :
                      \/ res.chunks[i].metadata.title = f.clauses[1].val
                      \/ res.chunks[i].metadata.problem_id = f.clauses[1].val

\* a hint with whitespace around a problem id, answered with that problem's chunks
C10_Witness ==
    /\ res.op = "search"
    /\ res.request.context = ProblemPrefix \o <<"\t", "p", "1", " ">>
    /\ res.status = 200
    /\ res.chunks # <<>>
    /\ \A i \in DOMAIN res.chunks : res.chunks[i].metadata.problem_id = <<"p", "1">>

\* key names the metadata key under which every topic chunk stores the title
\* of its document
IsTopicTitleKey(key) ==
    /\ \A doc \in TopicDocs :
          \A c \in Range(create_chunks_from_topic(doc, Uuid(1))) :
              c.metadata[key] = doc.title
    /\ \A e \in store["topics"] : e.metadata[key] = e.text.title

\* C11: for any hint that begins with "topic:", the resolver selects partition
\* topics with an exact-match filter on the document title equal to the text
\* after the prefix without its surrounding whitespace, and the key of the
\* filter is the metadata key under which topic chunks store their title; the
\* query goes to the topics collection with that filter and answers only with
\* chunks of documents of that title.
C11_TopicHint ==
    (/\ res.op = "search"
     /\ Truthy(res.request.context)
     /\ StartsWith(res.request.context, TopicPrefix)) =>
        LET resolved == parse_context(res.request.context)
            f == resolved.filters
        IN  /\ resolved.collection_type = "topics"
            /\ f.op = "eq"
            /\ Len(f.clauses) = 1
            /\ IsStrippedFrom(f.clauses[1].val, DropPrefix(res.request.context, 6))
            /\ IsTopicTitleKey(f.clauses[1].key)
            /\ \A k \in DOMAIN calls.queries :
                  /\ calls.queries[k].collection = "topics"
                  /\ calls.queries[k].where = f
            /\ res.status = 200 =>
                  /\ res.collection_type = "topics"
                  /\ \A i \in DOMAIN res.chunks :
                        res.chunks[i].content.title = f.clauses[1].val

\* a hint with whitespace around a topic title, answered with that topic's chunks
C11_Witness ==
    /\ res.op = "search"
    /\ res.request.context = TopicPrefix \o <<" ", "a", "b", "\t">>
    /\ res.status = 200
    /\ res.chunks # <<>>
    /\ \A i \in DOMAIN res.chunks : res.chunks[i].content.title = <<"a", "b">>

\* C12: when no hint is supplied (the hint is absent or the empty string), the
\* resolver selects partition topics with no metadata filter, for every query
\* text: the query goes to the topics collection unfiltered, so every stored
\* topic chunk is a candidate.
C12_NoHint ==
    (res.op = "search" /\ res.request.context \in {None, <<>>}) =>
        LET resolved == parse_context(res.request.context)
            n == IF res.request.n_results = <<>> THEN 5 ELSE res.request.n_results[1]
            stored == Cardinality(store["topics"])
        IN  /\ resolved.collection_type = "topics"
            /\ resolved.filters.op = "none"
            /\ resolved.filters.clauses = <<>>
            /\ \A k \in DOMAIN calls.queries :
                  /\ calls.queries[k].collection = "topics"
                  /\ calls.queries[k].where.op = "none"
                  /\ calls.queries[k].where.clauses = <<>>
            /\ res.status = 200 =>
                  /\ res.collection_type = "topics"
                  /\ "topics" \in collections =>
                        Len(res.chunks) = IF n <= stored THEN n ELSE stored

\* an empty hint with a query text that names a problem keyword, answered from
\* the topics collection
C12_Witness ==
    /\ res.op = "search"
    /\ res.request.context = <<>>
    /\ res.request.query = KeywordQuery
    /\ res.status = 200
    /\ res.collection_type = "topics"
    /\ res.chunks # <<>>

\* C13: for any non-empty hint that begins with neither "topic:" nor
\* "problem:" (the prefixes are matched case-sensitively at the first
\* character), the resolver selects partition topics with an exact title-match
\* filter on the raw, unmodified hint; the resolver's partition is always one of
\* topics and problems.
C13_RawHint ==
    res.op = "search" =>
        LET hint == res.request.context
            resolved == parse_context(hint)
            f == resolved.filters
        IN  /\ resolved.collection_type \in {"topics", "problems"}
            /\ \A k \in DOMAIN calls.queries :
                  calls.queries[k].collection \in {"topics", "problems"}
            /\ (/\ hint # None
                /\ hint # <<>>
                /\ ~StartsWith(hint, TopicPrefix)
                /\ ~StartsWith(hint, ProblemPrefix)) =>
                  /\ resolved.collection_type = "topics"
                  /\ f.op = "eq"
                  /\ Len(f.clauses) = 1
                  /\ f.clauses[1].val = hint
                  /\ IsTopicTitleKey(f.clauses[1].key)
                  /\ \A k \in DOMAIN calls.queries :
                        /\ calls.queries[k].collection = "topics"
                        /\ calls.queries[k].where = f
                  /\ res.status = 200 =>
                        \A i \in DOMAIN res.chunks : res.chunks[i].content.title = hint

\* a hint with a blank before "problem:" is a raw title of the topics partition
C13_Witness ==
    /\ res.op = "search"
    /\ res.request.context = <<" ">> \o ProblemPrefix \o <<"a", "b">>
    /\ res.status = 200
    /\ Len(calls.queries) = 1
    /\ calls.queries[1].collection = "topics"
    /\ calls.queries[1].where.clauses[1].val = res.request.context
    /\ res.chunks = <<>>

\* kw occurs in q when letter case is ignored
OccursIgnoringCase(kw, q) ==
    \E offset \in 0..(Len(q) - Len(kw)) :
        \A j \in 1..Len(kw) : LowerChar(q[offset + j]) = LowerChar(kw[j])

\* p and q differ at most in the case of their letters
SameUpToCase(p, q) ==
    /\ Len(p) = Len(q)
    /\ \A i \in 1..Len(p) : LowerChar(p[i]) = LowerChar(q[i])

\* C14: the legacy query classifier returns problems if and only if the
\* lower-cased query contains at least one keyword of the fixed keyword set as
\* a substring, and topics otherwise; the result does not depend on the letter
\* case of the query.
C14_KeywordClassifier ==
    (res.op = "search_simple" /\ res.status = 200) =>
        /\ res.collection_type \in {"topics", "problems"}
        /\ res.collection_type = "problems"
              <=> \E k \in DOMAIN problem_keywords :
                      OccursIgnoringCase(problem_keywords[k], res.query)
        /\ \A q \in SimpleQueries :
              SameUpToCase(q, res.query) => determine_collection_type(q) = res.collection_type

\* a query that carries a keyword only in upper case is classified as problems
C14_Witness ==
    /\ res.op = "search_simple"
    /\ res.status = 200
    /\ res.query = <<"S", "O", "L", "V", "E">>
    /\ res.collection_type = "problems"

\* the chunk ids of the last ingestion that carry the section tag
IdsTagged(tag) == {id \in lastIngest.ids : id.tag = tag}

\* the sections of a topic that yield one chunk each when all are present
TopicSingleSections ==
    {"core", "explanation", "steps", "complexity", "applications", "patterns",
     "implementation"}

IngestedPlainTopic ==
    /\ res.op = "ingest_topic"
    /\ res.status = 200
    /\ res.doc.detailed_explanation # <<>>
    /\ Len(res.doc.code_examples) = 1
    /\ res.doc.algorithm_steps \in {None, <<>>}
    /\ res.doc.problem_patterns = <<>>

\* C16 as stated: ingesting a topic that has a non-empty detailed explanation,
\* a complexity table and exactly one code example, with no algorithm steps and
\* no problem patterns, produces exactly 4 chunks (core, explanation,
\* complexity, one code example), and ingest returns the chunk count 4.
C16_FourChunks ==
    IngestedPlainTopic =>
        /\ res.chunk_count = 4
        /\ {id.tag : id \in lastIngest.ids} = {"core", "explanation", "complexity", "code"}

\* C16 as amended: such a topic produces exactly 6 chunks (core, explanation,
\* complexity, one code example, practical applications, implementation
\* guide), and ingest returns the chunk count 6.
C16_SixChunks ==
    IngestedPlainTopic =>
        /\ res.chunk_count = 6
        /\ Cardinality(lastIngest.ids) = 6
        /\ {id.tag : id \in lastIngest.ids}
              = {"core", "explanation", "complexity", "code", "applications", "implementation"}
        /\ \A e \in store["topics"] :
              e.id \in lastIngest.ids =>
                  e.metadata.chunk_type \in
                      {"core_concept", "detailed_explanation", "complexity", "code_example",
                       "practical_applications", "implementation_guide"}

\* such a topic, submitted with an id and without algorithm steps, was ingested
C16_Witness ==
    /\ IngestedPlainTopic
    /\ res.doc.id = <<"t", "1">>
    /\ res.doc.algorithm_steps = None
    /\ Cardinality({e \in store["topics"] : e.id \in lastIngest.ids}) = 6

\* C17: the topic chunker emits no algorithm_steps chunk when algorithm steps
\* are absent or empty, no problem_patterns chunk when the pattern list is
\* empty, and no code_example chunk when there are no code examples; an absent
\* optional section never yields a chunk.
C17_AbsentSectionsSkipped ==
    (res.op = "ingest_topic" /\ res.status = 200) =>
        /\ res.doc.algorithm_steps \in {None, <<>>} => IdsTagged("steps") = {}
        /\ res.doc.problem_patterns = <<>> => IdsTagged("patterns") = {}
        /\ res.doc.code_examples = <<>> => IdsTagged("code") = {}
        /\ Cardinality(IdsTagged("code")) <= Len(res.doc.code_examples)
        /\ Cardinality(lastIngest.ids) = res.chunk_count
        /\ \A e \in store["topics"] :
              e.id \in lastIngest.ids =>
                  /\ res.doc.algorithm_steps \in {None, <<>>}
                        => e.metadata.chunk_type # "algorithm_steps"
                  /\ res.doc.problem_patterns = <<>>
                        => e.metadata.chunk_type # "problem_patterns"
                  /\ res.doc.code_examples = <<>>
                        => e.metadata.chunk_type # "code_example"

\* a topic with an empty list of steps, no patterns and no code examples
C17_Witness ==
    /\ res.op = "ingest_topic"
    /\ res.status = 200
    /\ res.doc.algorithm_steps = <<>>
    /\ res.doc.problem_patterns = <<>>
    /\ res.doc.code_examples = <<>>
    /\ res.doc.detailed_explanation # <<>>
    /\ res.chunk_count = 5

\* the stored chunk came from a topic / from a problem
IsTopicChunk(e) == e.metadata.topic_id # Absent /\ e.metadata.problem_id = Absent
IsProblemChunk(e) == e.metadata.problem_id # Absent /\ e.metadata.topic_id = Absent

\* C18: every chunk belongs to exactly one partition determined by the type of
\* its source document: ingesting a topic writes only to the topics collection
\* and leaves the problems collection unchanged, and ingesting a problem writes
\* only to the problems collection and leaves the topics collection unchanged.
C18_OnePartitionPerChunk ==
    [][/\ res'.op = "ingest_topic" =>
             /\ store'["problems"] = store["problems"]
             /\ res'.status = 200 =>
                   /\ lastIngest'.ids \subseteq {e.id : e \in store'["topics"]}
                   /\ lastIngest'.ids \cap {e.id : e \in store'["problems"]} = {}
       /\ res'.op = "ingest_problem" =>
             /\ store'["topics"] = store["topics"]
             /\ res'.status = 200 =>
                   /\ lastIngest'.ids \subseteq {e.id : e \in store'["problems"]}
                   /\ lastIngest'.ids \cap {e.id : e \in store'["topics"]} = {}
       /\ \A e \in store'["topics"] : IsTopicChunk(e)
       /\ \A e \in store'["problems"] : IsProblemChunk(e)]_vars

\* a topic was ingested into a knowledge base that already holds a problem
C18_Witness ==
    /\ res.op = "ingest_topic"
    /\ res.status = 200
    /\ store["problems"] # {}
    /\ \A e \in store["problems"] : IsProblemChunk(e)
    /\ lastIngest.ids \subseteq {e.id : e \in store["topics"]}

\* what a search shows of a set of stored chunks
ViewOf(entries) == {[content |-> e.text, metadata |-> e.metadata] : e \in entries}

\* the chunks a search response shows
Observed == {[content |-> res.chunks[i].content, metadata |-> res.chunks[i].metadata] :
                i \in DOMAIN res.chunks}

\* C19: while a document is being ingested or re-ingested, a concurrent search
\* observes for that document either exactly its old chunk set (what the store
\* held for it when the ingestion began) or exactly its new chunk set (the
\* chunks this ingestion produces), never a half-updated one; the ingestion
\* issues one atomic upsert after all embeddings have been computed.
C19_OldOrNewChunkSet ==
    (res.op = "search" /\ res.status = 200 /\ calls.queries # <<>> /\ job.pc # "none") =>
        \/ Observed = ViewOf(job.old)
        \/ Observed = ViewOf(Range(job.chunks))

\* the step handles a search or an answer request
QueryStep == phase = "idle" /\ res'.op \in {"search", "search_simple", "ask", "rag"}

\* the state the requests share outside the service object: the database and
\* the ingestion services
SharedStateKept ==
    /\ store' = store
    /\ collections' = collections
    /\ loaded' = loaded
    /\ uuidCount' = uuidCount
    /\ ingestCount' = ingestCount
    /\ lastIngest' = lastIngest
    /\ job' = job

\* the partitions the request of a response may have addressed
AddressedBy(r) ==
    IF r.op \in {"search", "ask"} THEN {SearchedPartition(r.request)}
    ELSE IF r.op = "search_simple" THEN {"topics"}
    ELSE {"topics", "problems"}

\* C20 as stated: handling a search or answer request mutates no state shared
\* between requests: process-local state is the same after the query as before
\* it.
C20_NoSharedStateMutated ==
    [][QueryStep => (SharedStateKept /\ handles' = handles)]_vars

\* C20 as amended: a search or answer request leaves the database and the
\* ingestion state as they are; the only process-local state it changes is the
\* lazily cached collection handle of the partition it addresses, which goes
\* from None to the handle once that collection exists and never changes
\* again; the cache never contradicts the database, so each query is answered
\* as by a fresh service instance: from the current contents of the addressed
\* collection when it exists, and as an empty retrieval only when it does not.
C20_OnlyHandlesCached ==
    [][QueryStep =>
          /\ SharedStateKept
          /\ \A c \in {"topics", "problems"} :
                /\ handles[c] => handles'[c]
                /\ handles'[c] => c \in collections
                /\ (handles'[c] /\ ~handles[c]) => c \in AddressedBy(res')
          /\ (calls'.embed = 0 /\ calls'.queries = <<>>) =>
                \E c \in AddressedBy(res') : c \notin collections
          /\ \A k \in DOMAIN calls'.queries :
                /\ calls'.queries[k].collection \in collections \cap AddressedBy(res')
                /\ handles'[calls'.queries[k].collection]
                /\ \A i \in DOMAIN calls'.hits :
                      /\ calls'.hits[i].chunk \in store[calls'.queries[k].collection]
                      /\ Matches(calls'.queries[k].where, calls'.hits[i].chunk.metadata)
          /\ (res'.op = "search" /\ res'.status = 200) =>
                /\ Len(res'.chunks) = Len(calls'.hits)
                /\ \A i \in DOMAIN res'.chunks :
                      res'.chunks[i].content = calls'.hits[i].chunk.text]_vars

\* a search answered from a collection whose handle the service has cached
C20_Witness ==
    /\ res.op = "search"
    /\ res.status = 200
    /\ res.chunks # <<>>
    /\ handles[SearchedPartition(res.request)]
    /\ \E c \in {"topics", "problems"} : ~handles[c]

\* C21: if the embedding service or the vector-store query fails during a
\* retrieval, the retriever propagates that failure to its caller without
\* retrying (one embedding call, at most one query) and without converting it
\* into an empty result list; the search endpoint then reports an error instead
\* of an unsuccessful-but-valid search.
C21_RetrievalFailurePropagates ==
    res.op = "search" =>
        /\ calls.failure = "EmbeddingError" =>
              /\ res.status = 500
              /\ res.detail = "EmbeddingError"
              /\ calls.embed = 1
              /\ calls.queries = <<>>
        /\ calls.failure = "StoreQueryError" =>
              /\ res.status = 500
              /\ res.detail = "StoreQueryError"
              /\ calls.embed = 1
              /\ Len(calls.queries) = 1
        /\ res.status = 500 => calls.failure \in {"EmbeddingError", "StoreQueryError"}
        /\ res.status \in {200, 500}

\* the store query failed on a populated collection and the search reports an error
C21_Witness ==
    /\ res.op = "search"
    /\ calls.failure = "StoreQueryError"
    /\ store[SearchedPartition(res.request)] # {}
    /\ res.status = 500

\* the collaborators of an answer (embedding service, vector store, generation
\* service) all did what was asked of them
CollaboratorsSucceeded ==
    calls.failure \notin {"EmbeddingError", "StoreQueryError", "GenerationError"}

\* C22: every non-failing result of generate_rag_response carries the complete
\* list of retrieved chunks (irrelevant ones included, in retrieval order)
\* alongside the generated answer, and its success flag takes different values
\* for a context-grounded answer (chunks were retrieved) and for a fallback
\* answer (no chunk was retrieved).
C22_SourcesAndSuccessFlag ==
    (res.op = "rag" /\ CollaboratorsSucceeded) =>
        /\ Len(res.sources) = Len(calls.hits)
        /\ \A i \in 1..Len(calls.hits) :
              /\ res.sources[i].content = calls.hits[i].chunk.text
              /\ res.sources[i].metadata = calls.hits[i].chunk.metadata
        /\ res.response = calls.generation.reply
        /\ res.success = (calls.hits # <<>>)

\* the number of chunks the document of an ingest response produces
ChunksOf(response) ==
    IF response.op = "ingest_topic"
    THEN Len(create_chunks_from_topic(response.doc, None))
    ELSE Len(create_chunks_from_problem(response.doc, None))

IsIngest(response) == response.op \in {"ingest_topic", "ingest_problem"}

\* C23 as stated: the embedding service is called exactly once per chunk during
\* ingestion (N calls for a document producing N chunks, no embedding call
\* failing) and exactly once per query during every retrieval.
C23_OneEmbeddingPerChunkAndQuery ==
    /\ (IsIngest(res) /\ calls.failure # "EmbeddingError") => calls.embed = ChunksOf(res)
    /\ res.op = "search" => calls.embed = 1

\* C23 amended: an ingestion in which no embedding call fails makes N calls for
\* N chunks, one aborted by a failing embedding call has made at least one and
\* at most N; a retrieval makes exactly one call when its collection exists and
\* none when the collection is absent (it returns the empty list first).
C23_EmbeddingCallsAmended ==
    /\ (IsIngest(res) /\ calls.failure # "EmbeddingError") => calls.embed = ChunksOf(res)
    /\ (IsIngest(res) /\ calls.failure = "EmbeddingError") =>
          (calls.embed >= 1 /\ calls.embed <= ChunksOf(res) /\ calls.upserts = 0)
    /\ res.op = "search" =>
          calls.embed = (IF SearchedPartition(res.request) \in collections THEN 1 ELSE 0)

\* a topic of four chunks was ingested with four embedding calls
C23_Witness ==
    /\ res.op = "ingest_topic"
    /\ res.status = 200
    /\ ChunksOf(res) = 4
    /\ calls.embed = 4

\* the id under which the most recent quiz was stored
NewestQuizId == QuizId(Cardinality(DOMAIN active_quizzes))

\* what a response tells the client besides the QuizResponse fields
Conveyed(response) ==
    response.headers \cup {response[f] : f \in DOMAIN response \cap {"quiz_id"}}

\* C24: after a successful quiz generation the questions are stored under a
\* freshly generated quiz id and that id is conveyed to the client in the
\* generate response, so that a later evaluate request with it finds the quiz.
C24_QuizIdConveyed ==
    (res.op = "generate_quiz" /\ res.status = 200) =>
        /\ NewestQuizId \in DOMAIN active_quizzes
        /\ active_quizzes[NewestQuizId].questions = res.questions
        /\ NewestQuizId \in Conveyed(res)

\* C25: after a document with id X was ingested in version v1 and then
\* re-ingested in version v2 (same id, another set of optional sections, fewer
\* code examples or approaches), the store's chunks for X are exactly the chunks
\* of v2: no chunk that exists only in v1 remains.
C25_ReingestReplaces ==
    [][(/\ ingestCount' = ingestCount + 1
        /\ lastIngest.kind = lastIngest'.kind
        /\ lastIngest.ok
        /\ lastIngest'.ok
        /\ Truthy(lastIngest'.doc.id)
        /\ lastIngest.doc.id = lastIngest'.doc.id)
       => {e.id : e \in {x \in store'[CollectionOf(lastIngest'.kind)] :
                            x.id.doc = lastIngest'.doc.id}}
            = lastIngest'.ids]_vars

\* C26: in search-simple the partition that is actually queried is the one the
\* keyword classifier chose for the query, the one the response reports as
\* collection_type.
C26_SimpleSearchQueriesClassifiedPartition ==
    (res.op = "search_simple" /\ res.status = 200) =>
        \A i \in DOMAIN calls.queries : calls.queries[i].collection = res.collection_type

\* C27: for every search response and every caller-supplied threshold, if at
\* least one returned chunk is marked is_relevant (relevant_chunks_count > 0)
\* then the search is reported successful, and relevant_chunks_count never
\* exceeds total_chunks_found.
C27_RelevanceImpliesSuccess ==
    (res.op = "search" /\ res.status = 200) =>
        /\ res.relevant_chunks_count > 0 => res.is_successful
        /\ res.relevant_chunks_count <= res.total_chunks_found

\* C28: if embedding any chunk fails during the ingestion of a document, no
\* upsert is issued and the store is left exactly as it was before the
\* ingestion attempt (no subset of the document's chunks is written), and the
\* ingest endpoint reports an error instead of a chunk count.
C28_EmbeddingFailureWritesNothing ==
    [][(ingestCount' = ingestCount + 1 /\ calls'.failure = "EmbeddingError")
       => (/\ calls'.upserts = 0
           /\ store' = store
           /\ collections' = collections
           /\ IsIngest(res')
           /\ res'.status = 500
           /\ res'.detail = "EmbeddingError"
           /\ res'.chunk_count = 0
           /\ ~lastIngest'.ok)]_vars

\* the third embedding call of a re-ingestion failed: the chunks of the earlier
\* ingestion are still in the store and the endpoint reports an error
C28_Witness ==
    /\ IsIngest(res)
    /\ calls.failure = "EmbeddingError"
    /\ calls.embed = 3
    /\ res.status = 500
    /\ store[CollectionOf(res.op)] # {}

\* a step in which POST /search is handled
SearchStep == phase = "idle" /\ phase' = "responded" /\ res'.op = "search"

\* C29: a search that found a partition's collection absent does not remember
\* that absence: it caches nothing, and once the collection has been created
\* and populated the next search on the same service instance, like every
\* search, queries it and (without a filter) returns chunks; a collection handle
\* once obtained is kept and reused by every later search for that partition.
C29_AbsenceNotRemembered ==
    [][/\ \A c \in {"topics", "problems"} : handles[c] => handles'[c]
       /\ SearchStep =>
             LET p == SearchedPartition(res'.request) IN
             /\ p \notin collections =>
                   (~handles'[p] /\ p \in missed' /\ res'.status = 200
                    /\ res'.total_chunks_found = 0)
             /\ p \in collections =>
                   /\ handles'[p]
                   /\ calls'.embed = 1
                   /\ calls'.failure = "" =>
                         /\ Len(calls'.queries) = 1
                         /\ calls'.queries[1].collection = p
                         /\ \A i \in DOMAIN calls'.hits : calls'.hits[i].chunk \in store[p]
                         /\ (res'.request.context = None /\ store[p] # {}) =>
                                res'.total_chunks_found >= 1
             /\ \A c \in {"topics", "problems"} \ {p} : handles'[c] = handles[c]]_vars

\* a search on the topics partition returns a chunk on a service instance whose
\* earlier search had found the topics collection absent
C29_Witness ==
    /\ res.op = "search"
    /\ SearchedPartition(res.request) = "topics"
    /\ "topics" \in missed
    /\ handles["topics"]
    /\ res.status = 200
    /\ res.total_chunks_found >= 1

\* a step in which POST /evaluate is handled
EvaluateStep == phase = "idle" /\ phase' = "responded" /\ res'.op = "evaluate_quiz"

\* the response carries a score
Scored(response) ==
    {"correct_answers", "score_percentage", "evaluations"} \cap DOMAIN response # {}

=============================================================================
